---------------------------- MODULE Spec2Model ----------------------------
(***************************************************************************)
(* A model of nextr4y: the scanner (ScanTarget), the heuristic version     *)
(* detector (Detect and its strategies), the manifest route/asset          *)
(* resolver (extractRoutesAndAssets) and the HTTP fetcher (Fetch).         *)
(*                                                                         *)
(* Text is modelled at the level of characters: a Go string or []byte is a *)
(* sequence of one-character strings, so that strings.Contains,            *)
(* bytes.Index, sort.Strings, path.Join and the regular expressions of the *)
(* source are computed the way the code computes them.                     *)
(***************************************************************************)
EXTENDS Integers, Sequences, FiniteSets, TLC

(***************************************************************************)
(* Go's strings / bytes package, on sequences of characters.               *)
(***************************************************************************)

\* strings.HasPrefix(s, p)
HasPrefix(s, p) == Len(p) <= Len(s) /\ SubSeq(s, 1, Len(p)) = p

\* strings.HasSuffix(s, p)
HasSuffix(s, p) == Len(p) <= Len(s) /\ SubSeq(s, Len(s) - Len(p) + 1, Len(s)) = p

\* Whether sub occurs in s at the 1-based position i.
OccursAt(s, sub, i) ==
    /\ i >= 1
    /\ i + Len(sub) - 1 <= Len(s)
    /\ \A k \in 1..Len(sub) : s[i + k - 1] = sub[k]

\* bytes.Index / strings.Index, 1-based; 0 stands for Go's -1 (not found).
Index(s, sub) ==
    LET hits == {i \in 1..(Len(s) + 1) : OccursAt(s, sub, i)}
    IN  IF hits = {} THEN 0 ELSE CHOOSE i \in hits : \A j \in hits : i <= j

\* strings.Contains(s, sub)
Contains(s, sub) == \E i \in 1..(Len(s) + 1) : OccursAt(s, sub, i)

\* strings.LastIndex of the one-character string c, 1-based; 0 when absent.
LastIndexChar(s, c) ==
    LET hits == {i \in 1..Len(s) : s[i] = c}
    IN  IF hits = {} THEN 0 ELSE CHOOSE i \in hits : \A j \in hits : i >= j

\* strings.TrimPrefix(s, p)
TrimPrefix(s, p) == IF HasPrefix(s, p) THEN SubSeq(s, Len(p) + 1, Len(s)) ELSE s

\* The largest and smallest of two integers (Go 1.21 max and min).
Max2(a, b) == IF a >= b THEN a ELSE b
Min2(a, b) == IF a <= b THEN a ELSE b

(***************************************************************************)
(* Byte order of the characters the model's URLs are made of (ASCII), for  *)
(* sort.Strings.                                                           *)
(***************************************************************************)
AsciiOrder ==
    <<"-", ".", "/", "0", "1", "2", "3", "4", "5", "6", "7", "8", "9", ":", "?",
      "A", "B", "C", "D", "E", "F", "G", "H", "I", "J", "K", "L", "M", "N", "O",
      "P", "Q", "R", "S", "T", "U", "V", "W", "X", "Y", "Z", "_",
      "a", "b", "c", "d", "e", "f", "g", "h", "i", "j", "k", "l", "m", "n", "o",
      "p", "q", "r", "s", "t", "u", "v", "w", "x", "y", "z">>

ByteOf(c) == CHOOSE i \in 1..Len(AsciiOrder) : AsciiOrder[i] = c

\* a < b as Go compares strings: byte-wise, a proper prefix first.
RECURSIVE StrLessFrom(_, _, _)
StrLessFrom(a, b, i) ==
    IF i > Len(b) THEN FALSE
    ELSE IF i > Len(a) THEN TRUE
    ELSE IF a[i] = b[i] THEN StrLessFrom(a, b, i + 1)
    ELSE ByteOf(a[i]) < ByteOf(b[i])

StrLess(a, b) == StrLessFrom(a, b, 1)

\* sort.Strings of a set of distinct strings: the ascending sequence.
RECURSIVE SortStrings(_)
SortStrings(S) ==
    IF S = {} THEN <<>>
    ELSE LET m == CHOOSE x \in S : \A y \in S \ {x} : StrLess(x, y)
         IN  <<m>> \o SortStrings(S \ {m})

\* sort.Strings of a slice, which may hold a string more than once.
RECURSIVE InsertSorted(_, _)
InsertSorted(sorted, x) ==
    IF sorted = <<>> THEN <<x>>
    ELSE IF StrLess(x, Head(sorted)) THEN <<x>> \o sorted
    ELSE <<Head(sorted)>> \o InsertSorted(Tail(sorted), x)

RECURSIVE SortStringSeq(_)
SortStringSeq(q) ==
    IF q = <<>> THEN <<>> ELSE InsertSorted(SortStringSeq(Tail(q)), Head(q))

(***************************************************************************)
(* Go's regexp (RE2 syntax, leftmost-first matching) for the constructs    *)
(* the program's patterns use. A pattern is a sequence of nodes:           *)
(*   lit   a literal text                                                  *)
(*   cls   a character class (set, or its complement when neg) repeated    *)
(*         from min times to once (one = TRUE) or without limit, greedy or *)
(*         lazy                                                            *)
(*   alt   an alternation of literal texts, tried in order                 *)
(*   opt   an optional (greedy) group                                      *)
(*   open, close   the parentheses of capture group 1                      *)
(***************************************************************************)
Lit(s) == [t |-> "lit", s |-> s]
Cls(set, neg, min, one, lazy) ==
    [t |-> "cls", set |-> set, neg |-> neg, min |-> min, one |-> one, lazy |-> lazy]
One(set) == Cls(set, FALSE, 1, TRUE, FALSE)
Plus(set) == Cls(set, FALSE, 1, FALSE, FALSE)
Star(set) == Cls(set, FALSE, 0, FALSE, FALSE)
LazyStar(set) == Cls(set, FALSE, 0, FALSE, TRUE)
NotStar(set) == Cls(set, TRUE, 0, FALSE, FALSE)
\* "." : any character but a line break
AnyChar == Cls({"\n"}, TRUE, 1, TRUE, FALSE)
Alt(alts) == [t |-> "alt", alts |-> alts]
Opt(sub) == [t |-> "opt", sub |-> sub]
GroupOpen == [t |-> "open"]
GroupClose == [t |-> "close"]

NoMatch == [ok |-> FALSE, start |-> 0, end |-> 0, gs |-> 0, ge |-> 0]

InClass(node, c) == IF node.neg THEN c \notin node.set ELSE c \in node.set

\* How many characters from pos on are in the class, at most 1 for a single one.
RECURSIVE ClassRun(_, _, _)
ClassRun(node, text, pos) ==
    IF pos > Len(text) \/ ~InClass(node, text[pos]) THEN 0
    ELSE IF node.one THEN 1
    ELSE 1 + ClassRun(node, text, pos + 1)

\* The first match of nodes k.. of re at pos that a backtracking search finds;
\* end is the position after the match, gs..ge-1 the text of group 1.
RECURSIVE MatchAt(_, _, _, _, _)
RECURSIVE TryCounts(_, _, _, _, _, _, _)
RECURSIVE TryAlts(_, _, _, _, _, _)
MatchAt(re, k, text, pos, cap) ==
    IF k > Len(re) THEN [cap EXCEPT !.ok = TRUE, !.end = pos]
    ELSE LET node == re[k] IN
         CASE node.t = "lit" ->
                IF OccursAt(text, node.s, pos)
                THEN MatchAt(re, k + 1, text, pos + Len(node.s), cap)
                ELSE NoMatch
           [] node.t = "cls" ->
                LET run == ClassRun(node, text, pos) IN
                IF run < node.min THEN NoMatch
                ELSE IF node.lazy
                     THEN TryCounts(re, k, text, pos, cap, node.min, run)
                     ELSE TryCounts(re, k, text, pos, cap, run, node.min)
           [] node.t = "alt" -> TryAlts(re, k, text, pos, cap, 1)
           [] node.t = "opt" ->
                LET with == MatchAt(node.sub \o SubSeq(re, k + 1, Len(re)), 1, text, pos, cap)
                IN  IF with.ok THEN with ELSE MatchAt(re, k + 1, text, pos, cap)
           [] node.t = "open" -> MatchAt(re, k + 1, text, pos, [cap EXCEPT !.gs = pos])
           [] node.t = "close" -> MatchAt(re, k + 1, text, pos, [cap EXCEPT !.ge = pos])

\* The repetition counts of a class from n towards last (down when greedy, up
\* when lazy), the first for which the rest of the pattern matches.
TryCounts(re, k, text, pos, cap, n, last) ==
    LET r == MatchAt(re, k + 1, text, pos + n, cap) IN
    IF r.ok THEN r
    ELSE IF n = last THEN NoMatch
    ELSE TryCounts(re, k, text, pos, cap, IF n < last THEN n + 1 ELSE n - 1, last)

TryAlts(re, k, text, pos, cap, a) ==
    IF a > Len(re[k].alts) THEN NoMatch
    ELSE LET r == IF OccursAt(text, re[k].alts[a], pos)
                  THEN MatchAt(re, k + 1, text, pos + Len(re[k].alts[a]), cap)
                  ELSE NoMatch
         IN  IF r.ok THEN r ELSE TryAlts(re, k, text, pos, cap, a + 1)

\* Regexp.FindSubmatchIndex from position from on: the leftmost match.
RECURSIVE FindFrom(_, _, _)
FindFrom(re, text, from) ==
    IF from > Len(text) + 1 THEN NoMatch
    ELSE LET r == MatchAt(re, 1, text, from, [NoMatch EXCEPT !.start = from])
         IN  IF r.ok THEN r ELSE FindFrom(re, text, from + 1)

\* Regexp.FindSubmatch(text): the leftmost match, or NoMatch.
FindSubmatch(re, text) == FindFrom(re, text, 1)

\* Regexp.FindAllSubmatch(text, -1): the successive non-overlapping matches.
RECURSIVE FindAllFrom(_, _, _)
\* r, the match found, and those after it: the search goes on where r ends,
\* one character further when r is empty.
MatchAndRest(re, text, r) ==
    IF ~r.ok THEN <<>>
    ELSE <<r>> \o FindAllFrom(re, text, IF r.end > r.start THEN r.end ELSE r.end + 1)

FindAllFrom(re, text, from) == MatchAndRest(re, text, FindFrom(re, text, from))

FindAllSubmatch(re, text) == FindAllFrom(re, text, 1)

\* The text of the whole match (match[0]) and of group 1 (match[1]).
MatchText(text, m) == SubSeq(text, m.start, m.end - 1)
GroupText(text, m) == SubSeq(text, m.gs, m.ge - 1)

(***************************************************************************)
(* The version patterns of the detector. The source writes them as Go raw  *)
(* strings, in which a doubled backslash is the pattern "\\": an escaped,  *)
(* literal backslash. The nodes below are what regexp.MustCompile builds   *)
(* from each raw string.                                                   *)
(***************************************************************************)
Digits == {"0", "1", "2", "3", "4", "5", "6", "7", "8", "9"}
Lower == {"a", "b", "c", "d", "e", "f", "g", "h", "i", "j", "k", "l", "m",
          "n", "o", "p", "q", "r", "s", "t", "u", "v", "w", "x", "y", "z"}
Upper == {"A", "B", "C", "D", "E", "F", "G", "H", "I", "J", "K", "L", "M",
          "N", "O", "P", "Q", "R", "S", "T", "U", "V", "W", "X", "Y", "Z"}
\* \s
Space == {" ", "\t", "\n", "\r", "\f"}
\* [a-zA-Z0-9_$]
IdentChars == Lower \cup Upper \cup Digits \cup {"_", "$"}
\* ["']
Quotes == {"\"", "'"}
Backslash == <<"\\">>

\* `["'](\d+\.\d+\.\d+[^"']*)["']`
simpleVersionRegex ==
    <<One(Quotes), GroupOpen, Plus(Digits), Lit(<<".">>), Plus(Digits), Lit(<<".">>),
      Plus(Digits), NotStar(Quotes), GroupClose, One(Quotes)>>

\* `window\.next\s*=\s*{[\\s\\S]*?version\s*:\s*`, the head of both window.next
\* patterns; [\\s\\S] is the class of the backslash, "s" and "S".
WindowNextHead ==
    <<Lit(<<"w","i","n","d","o","w",".","n","e","x","t">>), Star(Space), Lit(<<"=">>), Star(Space), Lit(<<"{">>),
      LazyStar({"\\", "s", "S"}), Lit(<<"v","e","r","s","i","o","n">>), Star(Space), Lit(<<":">>),
      Star(Space)>>

\* `\\d+\\.\\d+\\.\\d+`: a backslash, one or more "d", a backslash, any
\* character, and so on.
EscapedVersionBody ==
    <<Lit(Backslash), Plus({"d"}), Lit(Backslash), AnyChar,
      Lit(Backslash), Plus({"d"}), Lit(Backslash), AnyChar,
      Lit(Backslash), Plus({"d"})>>

\* `window\.next\s*=\s*{[\\s\\S]*?version\s*:\s*[\"\'](\\d+\\.\\d+\\.\\d+[^\\\"\']*)[\"\']`
windowNextDirectVersionRegex ==
    WindowNextHead \o <<One(Quotes), GroupOpen>> \o EscapedVersionBody
        \o <<NotStar(Quotes \cup {"\\"}), GroupClose, One(Quotes)>>

\* `window\.next\s*=\s*{[\\s\\S]*?version\s*:\s*([a-zA-Z0-9_$]+(?:\\.[a-zA-Z0-9_$]+)?)`
windowNextVarVersionRegex ==
    WindowNextHead \o
        <<GroupOpen, Plus(IdentChars),
          Opt(<<Lit(Backslash), AnyChar, Plus(IdentChars)>>), GroupClose>>

\* `(?:let|var|const)\s+[a-zA-Z0-9_$]+\s*=\s*[\"\'](\\d+\\.\\d+\\.\\d+[^\"\']*)[\"\']`
assignmentVersionRegex ==
    <<Alt(<<<<"l","e","t">>, <<"v","a","r">>, <<"c","o","n","s","t">>>>), Plus(Space),
      Plus(IdentChars), Star(Space), Lit(<<"=">>), Star(Space), One(Quotes), GroupOpen>>
        \o EscapedVersionBody \o <<NotStar(Quotes), GroupClose, One(Quotes)>>

(***************************************************************************)
(* HTTPFetcher.Fetch. A server answers one request per TLS profile; the    *)
(* answer of cycletls' client.Do is a record                               *)
(*   [failed, errText, status, body, finalUrl]                             *)
(* (failed: Do returned an error, whose text is errText). The result of    *)
(* Fetch is [hasReader, body, finalURL, hasErr, msg].                      *)
(***************************************************************************)
\* len(defaultProfiles)
NumProfiles == 2

StatusOK == 200
StatusForbidden == 403

\* strconv.Itoa / fmt's %d for a status code
RECURSIVE Itoa(_)
Itoa(n) ==
    LET d == <<"0", "1", "2", "3", "4", "5", "6", "7", "8", "9">>[(n % 10) + 1]
    IN  IF n < 10 THEN <<d>> ELSE Itoa(n \div 10) \o <<d>>

MsgTlsProtocol == 
        <<"t","l","s",":"," ","p","r","o","t","o","c","o","l"," ","v","e","r","s","i","o","n"," ","n","o","t"," ","s","u","p","p","o","r","t","e","d">>
MsgHandshakeFailure == 
        <<"H","A","N","D","S","H","A","K","E","_","F","A","I","L","U","R","E">>

\* A loop that takes a 403 as an answer like any other: FetchAttempt without
\* the test of line 82.
FetchAttemptForbiddenStops(resp) ==
    IF resp.failed THEN "retry"
    ELSE IF resp.status = 0 /\ (Contains(resp.body, MsgTlsProtocol)
                                  \/ Contains(resp.body, MsgHandshakeFailure))
    THEN "retry"
    ELSE "stop"

\* What the loop does with one profile's answer: "retry" (continue with the
\* next profile) or "stop" (success = true; break).
FetchAttempt(resp) ==
    IF resp.failed THEN "retry"
    ELSE IF resp.status = 0 /\ (Contains(resp.body, MsgTlsProtocol)
                                  \/ Contains(resp.body, MsgHandshakeFailure))
    THEN "retry"
    ELSE IF resp.status = StatusForbidden THEN "retry"
    ELSE "stop"

\* The final URL as the response reports it: FinalURLOf without the tests of
\* lines 101 and 108.
FinalURLOfResponse(lastResp, targetURL) == lastResp.finalUrl

\* lastResp.FinalUrl, or the target URL when the response reports none.
FinalURLOf(lastResp, targetURL) ==
    IF lastResp.finalUrl = <<>> THEN targetURL ELSE lastResp.finalUrl

\* The code after the loop, when no profile succeeded.
FetchAllFailed(lastResp, targetURL) ==
    LET base == 
        <<"h","t","t","p","_","f","e","t","c","h","e","r",":"," ","a","l","l"," ","T","L","S"," ","p","r","o","f","i","l","e","s"," ","f","a","i","l","e","d"," ","f","o","r"," ">> \o targetURL
        errMsg == IF lastResp.failed
                  THEN base \o 
        <<"."," ","L","a","s","t"," ","D","o","(",")"," ","e","r","r","o","r",":"," ">> \o lastResp.errText
                  ELSE IF lastResp.status = 0 /\ lastResp.body # <<>>
                  THEN base \o 
        <<"."," ","L","a","s","t"," ","r","e","s","p","o","n","s","e"," ","b","o","d","y",":"," ">> \o lastResp.body
                  ELSE IF lastResp.status = StatusForbidden
                  THEN base \o 
        <<"."," ","L","a","s","t"," ","a","t","t","e","m","p","t"," ","r","e","s","u","l","t","e","d"," ","i","n"," ","4","0","3"," ","F","o","r","b","i","d","d","e","n",".">>
                  ELSE base
    IN  [hasReader |-> FALSE, body |-> <<>>, finalURL |-> FinalURLOf(lastResp, targetURL),
         hasErr |-> TRUE, msg |-> errMsg]

\* The code after the loop, when a profile's answer ended the rotation.
FetchSucceeded(lastResp, targetURL) ==
    LET finalURL == FinalURLOf(lastResp, targetURL) IN
    IF lastResp.status = 0
    THEN [hasReader |-> FALSE, body |-> <<>>, finalURL |-> finalURL, hasErr |-> TRUE,
          msg |-> 
        <<"h","t","t","p","_","f","e","t","c","h","e","r",":"," ","c","y","c","l","e","T","L","S"," ","r","e","t","u","r","n","e","d"," ","s","t","a","t","u","s"," ","0"," ","(","n","o","n","-","T","L","S"," ","h","a","n","d","s","h","a","k","e"," ","e","r","r","o","r",")"," ","f","o","r"," ">> \o finalURL
                    \o (IF lastResp.body # <<>> THEN 
        <<","," ","b","o","d","y",":"," ">> \o lastResp.body ELSE <<>>)]
    ELSE IF lastResp.status # StatusOK
    THEN [hasReader |-> FALSE, body |-> <<>>, finalURL |-> finalURL, hasErr |-> TRUE,
          msg |-> 
        <<"h","t","t","p","_","f","e","t","c","h","e","r",":"," ","b","a","d"," ","s","t","a","t","u","s"," ","c","o","d","e"," ","f","e","t","c","h","i","n","g"," ">> \o targetURL \o 
        <<" ","(","f","i","n","a","l"," ","U","R","L",":"," ">> \o finalURL \o 
        <<")",":"," ">>
                    \o Itoa(lastResp.status)]
    ELSE [hasReader |-> TRUE, body |-> lastResp.body, finalURL |-> finalURL,
          hasErr |-> FALSE, msg |-> <<>>]

\* The profile loop from profile i on; answers[i] is the server's answer to
\* the request made with profile i.
RECURSIVE FetchLoop(_, _, _)
FetchLoop(answers, targetURL, i) ==
    IF FetchAttempt(answers[i]) = "stop" THEN FetchSucceeded(answers[i], targetURL)
    ELSE IF i = NumProfiles THEN FetchAllFailed(answers[i], targetURL)
    ELSE FetchLoop(answers, targetURL, i + 1)

\* HTTPFetcher.Fetch(targetURL) against a server that answers profile i with
\* answers[i].
Fetch(answers, targetURL) == FetchLoop(answers, targetURL, 1)

(***************************************************************************)
(* Go's net/url and path packages, for the URLs of the model: a URL is a   *)
(* record [scheme, opaque, host, path, query, err]. The model's URLs hold  *)
(* no fragment, user info, port, percent escape, "." or ".." segment, so   *)
(* the parts of the library that treat those are left out.                 *)
(***************************************************************************)
Slash == <<"/">>

EmptyURL == [scheme |-> <<>>, opaque |-> <<>>, host |-> <<>>, path |-> <<>>,
             query |-> <<>>, err |-> FALSE]

\* &url.URL{Path: p}
PathURL(p) == [EmptyURL EXCEPT !.path = p]

\* strings.Cut(s, sep) for a one-character sep: the text before and after the
\* first sep, and whether sep was found.
CutAt(s, i) ==
    IF i = 0 THEN [before |-> s, after |-> <<>>, found |-> FALSE]
    ELSE [before |-> SubSeq(s, 1, i - 1), after |-> SubSeq(s, i + 1, Len(s)), found |-> TRUE]

Cut(s, c) == CutAt(s, Index(s, <<c>>))

\* url.getScheme: the length of the scheme of rawURL (0: none), or -1 for the
\* error "missing protocol scheme".
RECURSIVE GetScheme(_, _)
GetScheme(rawURL, i) ==
    IF i > Len(rawURL) THEN 0
    ELSE IF rawURL[i] \in Lower \cup Upper THEN GetScheme(rawURL, i + 1)
    ELSE IF rawURL[i] \in Digits \cup {"+", "-", "."}
         THEN IF i = 1 THEN 0 ELSE GetScheme(rawURL, i + 1)
    ELSE IF rawURL[i] = ":" THEN (IF i = 1 THEN -1 ELSE i - 1)
    ELSE 0

\* url.parse after the scheme and the query are cut off: rest is an opaque
\* text, an authority and a path, or a path.
ParseAuthority(scheme, query, auth) ==
    [EmptyURL EXCEPT !.scheme = scheme, !.host = auth.before,
                     !.path = IF auth.found THEN Slash \o auth.after ELSE <<>>,
                     !.query = query]

ParseRest(scheme, rest, query) ==
    IF ~HasPrefix(rest, Slash) /\ scheme # <<>>
    THEN [EmptyURL EXCEPT !.scheme = scheme, !.opaque = rest, !.query = query]
    ELSE IF ~HasPrefix(rest, Slash) /\ Contains(Cut(rest, "/").before, <<":">>)
    THEN [EmptyURL EXCEPT !.err = TRUE]
    ELSE IF HasPrefix(rest, <<"/", "/">>)
            /\ (scheme # <<>> \/ ~HasPrefix(rest, <<"/", "/", "/">>))
    THEN ParseAuthority(scheme, query, Cut(SubSeq(rest, 3, Len(rest)), "/"))
    ELSE [EmptyURL EXCEPT !.scheme = scheme, !.path = rest, !.query = query]

ParseQuery(scheme, q) == ParseRest(scheme, q.before, q.after)

\* n is what getScheme returned.
ParseScheme(rawURL, n) ==
    IF n = -1 THEN [EmptyURL EXCEPT !.err = TRUE]
    ELSE IF n > 0
    THEN ParseQuery(SubSeq(rawURL, 1, n), Cut(SubSeq(rawURL, n + 2, Len(rawURL)), "?"))
    ELSE ParseQuery(<<>>, Cut(rawURL, "?"))

\* url.Parse(rawURL)
ParseURL(rawURL) == ParseScheme(rawURL, GetScheme(rawURL, 1))

\* (*url.URL).IsAbs()
IsAbs(u) == u.scheme # <<>>

\* (*url.URL).String()
URLString(u) ==
    LET head == IF u.scheme # <<>> THEN u.scheme \o <<":">> ELSE <<>>
        authority == IF (u.scheme # <<>> \/ u.host # <<>>) /\ (u.host # <<>> \/ u.path # <<>>)
                     THEN <<"/", "/">> \o u.host ELSE <<>>
        sep == IF u.path # <<>> /\ u.path[1] # "/" /\ u.host # <<>> THEN Slash ELSE <<>>
        dot == IF head = <<>> /\ authority = <<>> /\ Contains(Cut(u.path, "/").before, <<":">>)
               THEN <<".", "/">> ELSE <<>>
        tail == IF u.query # <<>> THEN <<"?">> \o u.query ELSE <<>>
    IN  IF u.opaque # <<>> THEN head \o u.opaque \o tail
        ELSE head \o authority \o sep \o dot \o u.path \o tail

\* url.resolvePath(base, ref), for paths without "." and ".." segments: the
\* merged path, with a leading "/".
ResolvePath(base, ref) ==
    LET full == IF ref = <<>> THEN base
                ELSE IF ref[1] # "/" THEN SubSeq(base, 1, LastIndexChar(base, "/")) \o ref
                ELSE ref
    IN  IF full = <<>> THEN <<>>
        ELSE IF full[1] = "/" THEN full ELSE Slash \o full

\* (*url.URL).ResolveReference(ref)
ResolveReference(base, ref) ==
    IF ref.scheme # <<>> \/ ref.host # <<>>
    THEN [ref EXCEPT !.scheme = IF ref.scheme # <<>> THEN ref.scheme ELSE base.scheme,
                     !.path = IF ref.opaque # <<>> THEN ref.path
                              ELSE ResolvePath(ref.path, <<>>)]
    ELSE IF ref.opaque # <<>>
    THEN [ref EXCEPT !.scheme = base.scheme]
    ELSE IF ref.path = <<>> /\ ref.query = <<>>
    THEN [base EXCEPT !.path = ResolvePath(base.path, <<>>)]
    ELSE IF ref.path = <<>> /\ base.opaque # <<>>
    THEN [base EXCEPT !.query = ref.query]
    ELSE [base EXCEPT !.opaque = <<>>, !.path = ResolvePath(base.path, ref.path),
                      !.query = ref.query]

\* path.Clean(p), for paths without "." and ".." segments: runs of "/" become
\* one, a trailing "/" goes unless the path is the root, "" becomes ".".
RECURSIVE SquashSlashes(_)
SquashSlashes(p) ==
    IF Len(p) < 2 THEN p
    ELSE IF p[1] = "/" /\ p[2] = "/" THEN SquashSlashes(Tail(p))
    ELSE <<p[1]>> \o SquashSlashes(Tail(p))

PathClean(p) ==
    LET q == SquashSlashes(p) IN
    IF q = <<>> THEN <<".">>
    ELSE IF Len(q) > 1 /\ q[Len(q)] = "/" THEN SubSeq(q, 1, Len(q) - 1)
    ELSE q

\* path.Join(elems...): the non-empty elements joined by "/", then cleaned;
\* "" when every element is empty.
RECURSIVE JoinNonEmpty(_)
JoinNonEmpty(elems) ==
    IF elems = <<>> THEN <<>>
    ELSE IF Head(elems) = <<>> THEN JoinNonEmpty(Tail(elems))
    ELSE LET rest == JoinNonEmpty(Tail(elems))
         IN  IF rest = <<>> THEN Head(elems) ELSE Head(elems) \o Slash \o rest

PathJoin(elems) ==
    IF JoinNonEmpty(elems) = <<>> THEN <<>> ELSE PathClean(JoinNonEmpty(elems))

\* path.Base(p): the last element of p, trailing slashes removed.
RECURSIVE PathBase(_)
PathBase(p) ==
    IF p = <<>> THEN <<".">>
    ELSE IF p[Len(p)] = "/"
         THEN (IF Len(p) = 1 THEN Slash ELSE PathBase(SubSeq(p, 1, Len(p) - 1)))
    ELSE SubSeq(p, LastIndexChar(p, "/") + 1, Len(p))

(***************************************************************************)
(* The literal texts of the detector.                                      *)
(***************************************************************************)
TokFramework == <<"f","r","a","m","e","w","o","r","k">>
TokMain == <<"m","a","i","n">>
TokReactLower == <<"r","e","a","c","t">>
TokReactUpper == <<"R","e","a","c","t">>
TokReactDom == <<"r","e","a","c","t","-","d","o","m">>
TokReconciler == <<"r","e","c","o","n","c","i","l","e","r","V","e","r","s","i","o","n">>
NextStaticDir == <<"_","n","e","x","t","/","s","t","a","t","i","c">>
AppManifestFile == <<"_","a","p","p","M","a","n","i","f","e","s","t",".","j","s">>
TokBadStatus == <<"b","a","d"," ","s","t","a","t","u","s"," ","c","o","d","e">>
Tok404 == <<":"," ","4","0","4">>
Tok403 == <<":"," ","4","0","3">>
HintAppRouter == <<">","=","1","3"," ","(","A","p","p"," ","R","o","u","t","e","r"," ","L","i","k","e","l","y",")">>
HintPagesRouter == <<"<","1","3"," ","/"," ","P","a","g","e","s"," ","R","o","u","t","e","r"," ","L","i","k","e","l","y">>
Unknown == <<"U","n","k","n","o","w","n">>
UnknownMissingData == <<"U","n","k","n","o","w","n"," ","(","M","i","s","s","i","n","g"," ","d","a","t","a",")">>
UnknownErrorProbing == <<"U","n","k","n","o","w","n"," ","(","E","r","r","o","r"," ","p","r","o","b","i","n","g",")">>
UnknownMissingFetcher == <<"U","n","k","n","o","w","n"," ","(","M","i","s","s","i","n","g"," ","f","e","t","c","h","e","r",")">>

\* contextWindow := 30
ContextWindow == 30

(***************************************************************************)
(* Go errors. An error is the chain of the error values it wraps, the      *)
(* outermost first, each named by the statement that allocated it, and its *)
(* text.                                                                   *)
(* errors.Is(err, target) holds when a value of err's chain is target: the *)
(* values are pointers, and two allocations are never the same value.      *)
(***************************************************************************)
NilError == [chain |-> <<>>, text |-> <<>>]

\* errors.New(text), or fmt.Errorf without %w, at the statement named at
NewError(at, text) == [chain |-> <<at>>, text |-> text]

\* fmt.Errorf(prefix + "%w", err) at the statement named at
WrapError(at, prefix, err) == [chain |-> <<at>> \o err.chain, text |-> prefix \o err.text]

IsNilError(err) == err.chain = <<>>

\* errors.Is(err, target), target a value just allocated by errors.New
ErrorsIs(err, target) == \E i \in DOMAIN err.chain : err.chain[i] = target.chain[1]

MsgNextDataNotFound == <<"_","_","N","E","X","T","_","D","A","T","A","_","_"," ","s","c","r","i","p","t"," ","t","a","g"," ","n","o","t"," ","f","o","u","n","d">>
MsgUnmarshal == <<"f","a","i","l","e","d"," ","t","o"," ","u","n","m","a","r","s","h","a","l"," ","_","_","N","E","X","T","_","D","A","T","A","_","_"," ","J","S","O","N",":"," ">>
MsgJSONSyntax == <<"u","n","e","x","p","e","c","t","e","d"," ","e","n","d"," ","o","f"," ","J","S","O","N"," ","i","n","p","u","t">>
MsgMissingFields == <<"_","_","N","E","X","T","_","D","A","T","A","_","_"," ","f","o","u","n","d",","," ","b","u","t"," ","m","i","s","s","i","n","g"," ","e","x","p","e","c","t","e","d"," ","f","i","e","l","d","s"," ","(","b","u","i","l","d","I","d",","," ","p","r","o","p","s",")">>
MsgInitialFetch == <<"s","c","a","n","n","e","r",":"," ","i","n","i","t","i","a","l"," ","f","e","t","c","h"," ","f","a","i","l","e","d"," ","f","o","r"," ">>
MsgInvalidFinalURL == <<"s","c","a","n","n","e","r",":"," ","i","n","v","a","l","i","d"," ","f","i","n","a","l"," ","U","R","L"," ","'">>
MsgReceived == <<"'"," ","r","e","c","e","i","v","e","d"," ","f","r","o","m"," ","f","e","t","c","h","e","r",":"," ">>
MsgParse == <<"p","a","r","s","e",":"," ","m","i","s","s","i","n","g"," ","p","r","o","t","o","c","o","l"," ","s","c","h","e","m","e">>
MsgReadBody == <<"s","c","a","n","n","e","r",":"," ","f","a","i","l","e","d"," ","t","o"," ","r","e","a","d"," ","r","e","s","p","o","n","s","e"," ","b","o","d","y"," ","f","r","o","m"," ">>
MsgReadError == <<"u","n","e","x","p","e","c","t","e","d"," ","E","O","F">>
MsgFetchManifest == <<"f","a","i","l","e","d"," ","t","o"," ","f","e","t","c","h"," ","b","u","i","l","d"," ","m","a","n","i","f","e","s","t"," ","a","t"," ">>
MsgAndFallback == <<" ","(","a","n","d"," ","f","a","l","l","b","a","c","k",")">>
MsgReadManifest == <<"f","a","i","l","e","d"," ","t","o"," ","r","e","a","d"," ","b","u","i","l","d"," ","m","a","n","i","f","e","s","t"," ","f","r","o","m"," ">>
MsgGojaFailed == <<"g","o","j","a"," ","e","x","e","c","u","t","i","o","n"," ","f","a","i","l","e","d",":"," ">>
MsgGojaExecute == <<"g","o","j","a",":"," ","f","a","i","l","e","d"," ","t","o"," ","e","x","e","c","u","t","e"," ","m","a","n","i","f","e","s","t"," ","J","S",":"," ">>
MsgGojaSyntax == <<"S","y","n","t","a","x","E","r","r","o","r">>
MsgGojaNotObject == <<"g","o","j","a",":"," ","m","a","n","i","f","e","s","t"," ","J","S"," ","d","i","d"," ","n","o","t"," ","r","e","t","u","r","n"," ","a","n"," ","o","b","j","e","c","t",","," ","g","o","t"," ","t","y","p","e"," ","s","t","r","i","n","g">>
MsgManifestFailed == <<"s","c","a","n","n","e","r",":"," ","m","a","n","i","f","e","s","t"," ","p","r","o","c","e","s","s","i","n","g"," ","f","a","i","l","e","d",":"," ">>
MsgNextDataError == <<"s","c","a","n","n","e","r",":"," ","_","_","N","E","X","T","_","D","A","T","A","_","_"," ","p","r","o","c","e","s","s","i","n","g"," ","e","r","r","o","r",":"," ">>
MsgUnsupported == <<"U","n","s","u","p","p","o","r","t","e","d"," ","d","e","p","l","o","y","m","e","n","t">>
ColonSpace == <<":"," ">>
SchemeHTTP == <<"h","t","t","p",":","/","/">>
SchemeHTTPS == <<"h","t","t","p","s",":","/","/">>
TokNextStatic == <<"/","_","n","e","x","t","/","s","t","a","t","i","c","/">>
TokNextSlash == <<"/","_","n","e","x","t","/">>
TokNextEnd == <<"/","_","n","e","x","t">>
StaticDir == <<"s","t","a","t","i","c">>
BuildManifestFile == <<"_","b","u","i","l","d","M","a","n","i","f","e","s","t",".","j","s">>
SchemeSep == <<":","/","/">>
Dot == <<".">>

\* The error Fetch returned, as a Go error.
FetchError(r) == IF r.hasErr THEN NewError("Fetch", r.msg) ELSE NilError

(***************************************************************************)
(* strings.Trim, Split and Join, for a one-character cutset or separator.  *)
(***************************************************************************)
RECURSIVE TrimLeftChar(_, _)
TrimLeftChar(s, c) ==
    IF s # <<>> /\ s[1] = c THEN TrimLeftChar(Tail(s), c) ELSE s

RECURSIVE TrimRightChar(_, _)
TrimRightChar(s, c) ==
    IF s # <<>> /\ s[Len(s)] = c THEN TrimRightChar(SubSeq(s, 1, Len(s) - 1), c) ELSE s

TrimChar(s, c) == TrimRightChar(TrimLeftChar(s, c), c)

RECURSIVE Split(_, _)
Split(s, c) ==
    LET cut == Cut(s, c)
    IN  IF cut.found THEN <<cut.before>> \o Split(cut.after, c) ELSE <<s>>

RECURSIVE Join(_, _)
Join(parts, c) ==
    IF parts = <<>> THEN <<>>
    ELSE IF Len(parts) = 1 THEN parts[1]
    ELSE parts[1] \o <<c>> \o Join(Tail(parts), c)

(***************************************************************************)
(* The server. A behaviour names how a URL answers every request; site     *)
(* gives the behaviour of the URLs it knows, elsewhere that of every other *)
(* URL. A server answers the same URL the same way each time it is asked.  *)
(***************************************************************************)
VARIABLES
    site,               \* URL -> behaviour, for the URLs the server knows
    elsewhere,          \* the behaviour of every other URL
    documents,          \* URL -> the page or build manifest served there
    readFails,          \* the URLs whose reader fails in io.ReadAll
    fetched             \* the URLs Fetch was called with, in order

VARIABLES
    initialTargetURL,   \* ScanTarget's parameter
    customBaseURL,      \* s.customBaseURL
    result,             \* ScanTarget's locals
    baseURL,
    htmlContent,
    nextDataErr,
    assetBaseParsedURL,
    initialScriptURLs,
    manifestReader,
    manifestProcessingError,
    manifestAssets,
    finalError,
    retResult,          \* what ScanTarget returned: "nil" or "result", and
    retErr,             \* the error
    spc                 \* the statement of ScanTarget that runs next

VARIABLES
    buildID,            \* Detect's parameters
    jsAssetURLs,
    assetBaseURL,
    assetBaseNil,       \* assetBaseURL == nil
    fetcherNil,         \* fetcher == nil
    priorityURLs,       \* Detect's locals
    otherURLs,
    allURLs,
    finalNextVersion,
    finalReactVersion,
    versionHint,        \* what the app manifest probe returned
    foundHint,
    dpc                 \* the statement of Detect that runs next

VARIABLES
    fetchTarget,        \* Fetch's parameter targetURL
    profileAnswers,     \* what client.Do gets with each profile, by index
    requests,           \* the profiles client.Do was called with, in order
    lastResp,           \* Fetch's locals: lastResp and lastErr in one record,
    success,
    profileIndex,       \* the profile the loop is at
    fetchReturn,        \* what Fetch returned
    fpc                 \* the statement of Fetch that runs next

fetchCall == <<fetchTarget, profileAnswers, requests, lastResp, success, profileIndex,
               fetchReturn, fpc>>

NoAnswer == [failed |-> FALSE, errText |-> <<>>, status |-> 0, body |-> <<>>,
             finalUrl |-> <<>>]
NoReturn == [hasReader |-> FALSE, body |-> <<>>, finalURL |-> <<>>, hasErr |-> FALSE,
             msg |-> <<>>]

\* Fetch is not followed statement by statement.
FetchIdle ==
    /\ fetchTarget = <<>>
    /\ profileAnswers = <<>>
    /\ requests = <<>>
    /\ lastResp = NoAnswer
    /\ success = FALSE
    /\ profileIndex = 1
    /\ fetchReturn = NoReturn
    /\ fpc = "idle"

(***************************************************************************)
(* The script files the model's servers serve. Each is the text of a file, *)
(* named by what it holds.                                                 *)
(***************************************************************************)
Filler25 == <<"a","a","a","a","a","a","a","a","a","a","a","a","a","a","a","a","a","a","a","a","a","a","a","a","a">>
Filler26 == <<"a","a","a","a","a","a","a","a","a","a","a","a","a","a","a","a","a","a","a","a","a","a","a","a","a","a">>

FileText(id) ==
    CASE id = "empty" -> <<"(","(",")","=",">","{","}",")","(",")">>
      \* window.next = {version: "14.2.1"}, as a build writes it
      [] id = "real" -> <<"w","i","n","d","o","w",".","n","e","x","t","=","{","v","e","r","s","i","o","n",":","\"","1","4",".","2",".","1","\"",",","a","p","p","D","i","r",":","!","0","}">>
      \* a text the direct pattern of the source matches
      [] id = "direct" -> <<"w","i","n","d","o","w",".","n","e","x","t","=","{","v","e","r","s","i","o","n",":","\"","\\","d","\\",".","\\","d","\\",".","\\","d","-","x","\"","}">>
      \* version set to an identifier, declared later; an unrelated literal first
      [] id = "indirect" -> <<"x","=","\"","1",".","0",".","0","\"",";","w","i","n","d","o","w",".","n","e","x","t","=","{","v","e","r","s","i","o","n",":","H","}",";","l","e","t"," ","H","=","\"","1","4",".","2",".","1","-","c","a","n","a","r","y",".","3","\"">>
      \* the same with a declaration the assignment pattern of the source matches
      [] id = "indirectEsc" -> <<"x","=","\"","1",".","0",".","0","\"",";","w","i","n","d","o","w",".","n","e","x","t","=","{","v","e","r","s","i","o","n",":","H","}",";","l","e","t"," ","H","=","\"","\\","d","\\",".","\\","d","\\",".","\\","d","\"">>
      \* version set to an identifier, no version literal in the file
      [] id = "varOnly" -> <<"w","i","n","d","o","w",".","n","e","x","t","=","{","v","e","r","s","i","o","n",":","H","}">>
      [] id = "lit9" -> <<"a","=","\"","9",".","9",".","9","\"">>
      [] id = "react18" -> <<"\"","r","e","a","c","t","-","d","o","m","\"",":","\"","1","8",".","2",".","0","\"">>
      [] id = "recon" -> <<"r","e","c","o","n","c","i","l","e","r","V","e","r","s","i","o","n",":","\"","1","8",".","3",".","1","\"",",","r","e","n","d","e","r","e","r","P","a","c","k","a","g","e","N","a","m","e",":","\"","r","e","a","c","t","-","d","o","m","\"">>
      [] id = "reconOnly" -> <<"r","e","c","o","n","c","i","l","e","r","V","e","r","s","i","o","n",":","\"","1","8",".","3",".","1","\"">>
      \* "react" ends 25, and 26, characters before the literal
      [] id = "reactNear" -> <<"r","e","a","c","t">> \o Filler25 \o <<"\"","3",".","3",".","3","\"">>
      [] id = "reactFar" -> <<"r","e","a","c","t">> \o Filler26 \o <<"\"","4",".","4",".","4","\"">>
      \* the same quoted version twice: far from "react", then right after it
      [] id = "twice" -> <<"\"","5",".","5",".","5","\"">> \o Filler26 \o Filler25
                            \o <<"r","e","a","c","t","\"","5",".","5",".","5","\"">>

FileIds == {"empty", "real", "direct", "indirect", "indirectEsc", "varOnly", "lit9",
            "react18", "recon", "reconOnly", "reactNear", "reactFar", "twice"}

\* The answers of a URL with behaviour b to the requests of the profiles:
\* a file id serves that file with status 200; the others fail every profile.
Answer(status, body, url) ==
    [failed |-> FALSE, errText |-> <<>>, status |-> status, body |-> body, finalUrl |-> url]

BehaviourAnswers(b, url) ==
    CASE b \in FileIds -> [i \in 1..NumProfiles |-> Answer(200, FileText(b), url)]
      [] b = "s404" -> [i \in 1..NumProfiles |-> Answer(404, <<>>, url)]
      [] b = "s403" -> [i \in 1..NumProfiles |-> Answer(403, <<>>, url)]
      [] b = "s500" -> [i \in 1..NumProfiles |-> Answer(500, <<>>, url)]
      [] b = "tls" -> [i \in 1..NumProfiles |-> Answer(0, MsgHandshakeFailure, <<>>)]
      [] b = "neterr" -> [i \in 1..NumProfiles |->
                            [failed |-> TRUE, errText |-> <<"E","O","F">>, status |-> 0,
                             body |-> <<>>, finalUrl |-> <<>>]]

FailBehaviours == {"s404", "s403", "s500", "tls", "neterr"}

\* The answers of a URL that serves a page or a build manifest: how is "ok",
\* a way to fail, or "badfinal" (the page, with a final URL that url.Parse
\* rejects).
DocumentAnswers(d, url) ==
    IF d.how = "ok" THEN [i \in 1..NumProfiles |-> Answer(200, d.doc, url)]
    ELSE IF d.how = "badfinal" THEN [i \in 1..NumProfiles |-> Answer(200, d.doc, <<":">>)]
    ELSE BehaviourAnswers(d.how, url)

\* What a request for url gets from the server.
Answers(url) ==
    IF url \in DOMAIN documents THEN DocumentAnswers(documents[url], url)
    ELSE BehaviourAnswers(IF url \in DOMAIN site THEN site[url] ELSE elsewhere, url)

\* fetcher.Fetch(url), the fetcher being the program's HTTPFetcher
FetcherFetch(url) == Fetch(Answers(url), url)

(***************************************************************************)
(* The detector (package versiondetect).                                   *)
(***************************************************************************)

\* fetchContent: the bytes of the asset and ok, or ok = FALSE when Fetch or
\* io.ReadAll fails.
ReadContent(r, assetURL) ==
    [content |-> r.body, ok |-> ~r.hasErr /\ assetURL \notin readFails]

fetchContent(assetURL) == ReadContent(FetcherFetch(assetURL), assetURL)

\* The body of detectWithWindowNextPattern's loop for one fetched file:
\* the version it returns, or found = FALSE to go on with the next URL.
WindowNextVersion(contentBytes, matchDirect, matchVar, assignmentMatch, simpleMatch) ==
    IF matchDirect.ok
    THEN [version |-> GroupText(contentBytes, matchDirect), found |-> TRUE]
    ELSE IF matchVar.ok /\ assignmentMatch.ok
    THEN [version |-> GroupText(contentBytes, assignmentMatch), found |-> TRUE]
    ELSE IF matchVar.ok /\ simpleMatch.ok
    THEN [version |-> GroupText(contentBytes, simpleMatch), found |-> TRUE]
    ELSE [version |-> <<>>, found |-> FALSE]

WindowNextInFile(contentBytes) ==
    WindowNextVersion(contentBytes,
                      FindSubmatch(windowNextDirectVersionRegex, contentBytes),
                      FindSubmatch(windowNextVarVersionRegex, contentBytes),
                      FindSubmatch(assignmentVersionRegex, contentBytes),
                      FindSubmatch(simpleVersionRegex, contentBytes))

\* The files of the model, and what the loop body finds in each. (The table
\* holds WindowNextInFile of every file, so that it is computed once a file.)
FileTexts == {FileText(id) : id \in FileIds}

WindowNextTable == [c \in FileTexts |-> WindowNextInFile(c)]

WindowNextOf(contentBytes) ==
    IF contentBytes \in FileTexts THEN WindowNextTable[contentBytes]
    ELSE WindowNextInFile(contentBytes)

\* detectWithWindowNextPattern(urls, fetchContent, stagePrefix), from the
\* i-th URL on; fetched lists the URLs it asked for.
RECURSIVE WindowNextLoop(_, _)
\* r, with assetURL fetched before what r fetched
AfterFetching(assetURL, r) == [r EXCEPT !.fetched = <<assetURL>> \o @]

\* The end of one turn of the loop, hit being what the body found in urls[i].
WindowNextTurn(urls, i, hit) ==
    IF hit.found
    THEN [version |-> hit.version, found |-> TRUE, fetched |-> <<urls[i]>>]
    ELSE AfterFetching(urls[i], WindowNextLoop(urls, i + 1))

\* What the body finds in c, which fetchContent returned.
WindowNextHit(c) ==
    IF c.ok THEN WindowNextOf(c.content) ELSE [version |-> <<>>, found |-> FALSE]

WindowNextLoop(urls, i) ==
    IF i > Len(urls) THEN [version |-> <<>>, found |-> FALSE, fetched |-> <<>>]
    ELSE WindowNextTurn(urls, i, WindowNextHit(fetchContent(urls[i])))

detectWithWindowNextPattern(urls) == WindowNextLoop(urls, 1)

\* The text window the context scan examines for match m of contentBytes:
\* contextWindow bytes each side of bytes.Index(contentBytes, match[0]).
ContextOf(contentBytes, m) ==
    LET matchIndex == Index(contentBytes, MatchText(contentBytes, m)) - 1
        start == Max2(0, matchIndex - ContextWindow)
        end == Min2(Len(contentBytes), matchIndex + (m.end - m.start) + ContextWindow)
    IN  SubSeq(contentBytes, start + 1, end)

isReact(context) ==
    \/ Contains(context, TokReactLower)
    \/ Contains(context, TokReactUpper)
    \/ Contains(context, TokReactDom)

isReconciler(context) == Contains(context, TokReconciler)

\* For each match of simpleVersionRegex in contentBytes, in order: the
\* candidate version and what its context window holds.
Candidate(candidateVersion, context) ==
    [candidateVersion |-> candidateVersion,
     isReact |-> isReact(context),
     isReconciler |-> isReconciler(context)]

CandidatesAmong(contentBytes, matches) ==
    [j \in 1..Len(matches) |->
        Candidate(GroupText(contentBytes, matches[j]), ContextOf(contentBytes, matches[j]))]

CandidatesIn(contentBytes) ==
    CandidatesAmong(contentBytes, FindAllSubmatch(simpleVersionRegex, contentBytes))

CandidatesTable == [c \in FileTexts |-> CandidatesIn(c)]

CandidatesOf(contentBytes) ==
    IF contentBytes \in FileTexts THEN CandidatesTable[contentBytes]
    ELSE CandidatesIn(contentBytes)

\* The body of the inner loop of detectWithSimpleContextPattern for one match:
\* the two versions after it.
ClassifyMatch(cand, nextVersion, reactVersion) ==
    IF nextVersion # <<>> /\ reactVersion # <<>>
    THEN [next |-> nextVersion, react |-> reactVersion]
    ELSE IF cand.isReact /\ reactVersion = <<>>
    THEN [next |-> nextVersion, react |-> cand.candidateVersion]
    ELSE IF ~cand.isReact /\ ~cand.isReconciler /\ nextVersion = <<>>
    THEN [next |-> cand.candidateVersion, react |-> reactVersion]
    ELSE [next |-> nextVersion, react |-> reactVersion]

\* The inner loop, from the j-th match on.
RECURSIVE MatchesLoop(_, _, _, _)
MatchesFrom(cands, j, v) == MatchesLoop(cands, j, v.next, v.react)

MatchesLoop(cands, j, nextVersion, reactVersion) ==
    IF j > Len(cands) THEN [next |-> nextVersion, react |-> reactVersion]
    ELSE MatchesFrom(cands, j + 1, ClassifyMatch(cands[j], nextVersion, reactVersion))

\* detectWithSimpleContextPattern(urls, fetchContent, currentNextVersion,
\* currentReactVersion), from the i-th URL on.
RECURSIVE SimpleContextLoop(_, _, _, _)
\* The two versions after the file c, which fetchContent returned.
ScanFile(c, nextVersion, reactVersion) ==
    IF c.ok THEN MatchesLoop(CandidatesOf(c.content), 1, nextVersion, reactVersion)
    ELSE [next |-> nextVersion, react |-> reactVersion]

\* The loop from the URL after urls[i] on, v being the versions after urls[i].
SimpleContextNext(urls, i, v) ==
    AfterFetching(urls[i], SimpleContextLoop(urls, i + 1, v.next, v.react))

\* A loop that goes through every URL: SimpleContextLoop without the test of
\* line 84.
SimpleContextLoopNoStop(urls, i, nextVersion, reactVersion) ==
    IF i > Len(urls)
    THEN [next |-> nextVersion, react |-> reactVersion, fetched |-> <<>>]
    ELSE SimpleContextNext(urls, i, ScanFile(fetchContent(urls[i]), nextVersion, reactVersion))

SimpleContextLoop(urls, i, nextVersion, reactVersion) ==
    IF i > Len(urls) \/ (nextVersion # <<>> /\ reactVersion # <<>>)
    THEN [next |-> nextVersion, react |-> reactVersion, fetched |-> <<>>]
    ELSE SimpleContextNext(urls, i, ScanFile(fetchContent(urls[i]), nextVersion, reactVersion))

detectWithSimpleContextPattern(urls, currentNextVersion, currentReactVersion) ==
    SimpleContextLoop(urls, 1, currentNextVersion, currentReactVersion)

\* The URL detectWithAppManifestProbe asks for.
AppManifestURL(id, base) ==
    URLString(ResolveReference(base, PathURL(PathJoin(<<NextStaticDir, id, AppManifestFile>>))))

\* A probe that takes every bad status for a missing manifest: ProbeOutcome
\* without the test for 404 and 403.
ProbeOutcomeAnyStatus(r) ==
    IF ~r.hasErr THEN [versionHint |-> HintAppRouter, found |-> TRUE]
    ELSE IF Contains(r.msg, TokBadStatus)
    THEN [versionHint |-> HintPagesRouter, found |-> TRUE]
    ELSE [versionHint |-> UnknownErrorProbing, found |-> FALSE]

\* A probe that reports its failure as a finding: ProbeOutcome with found
\* set on the last return.
ProbeOutcomeFoundOnError(r) ==
    IF ~r.hasErr THEN [versionHint |-> HintAppRouter, found |-> TRUE]
    ELSE IF Contains(r.msg, TokBadStatus)
            /\ (Contains(r.msg, Tok404) \/ Contains(r.msg, Tok403))
    THEN [versionHint |-> HintPagesRouter, found |-> TRUE]
    ELSE [versionHint |-> UnknownErrorProbing, found |-> TRUE]

\* What the probe makes of the outcome of its Fetch.
ProbeOutcome(r) ==
    IF ~r.hasErr THEN [versionHint |-> HintAppRouter, found |-> TRUE]
    ELSE IF Contains(r.msg, TokBadStatus) /\ (Contains(r.msg, Tok404) \/ Contains(r.msg, Tok403))
    THEN [versionHint |-> HintPagesRouter, found |-> TRUE]
    ELSE [versionHint |-> UnknownErrorProbing, found |-> FALSE]

\* The probe of fullAppManifestURL.
ProbeFetched(fullAppManifestURL, o) ==
    [versionHint |-> o.versionHint, found |-> o.found, fetched |-> <<fullAppManifestURL>>]

ProbeAt(fullAppManifestURL) ==
    ProbeFetched(fullAppManifestURL, ProbeOutcome(FetcherFetch(fullAppManifestURL)))

\* detectWithAppManifestProbe(buildID, assetBaseURL, fetcher)
detectWithAppManifestProbe(id, base, baseNil, noFetcher) ==
    IF id = <<>> \/ baseNil \/ noFetcher
    THEN [versionHint |-> UnknownMissingData, found |-> FALSE, fetched |-> <<>>]
    ELSE ProbeAt(AppManifestURL(id, base))

\* The capacity of a slice grown from []string{} by n appends of one element
\* (runtime.growslice: the capacity doubles, from 1).
RECURSIVE AppendCap(_)
AppendCap(n) == IF n <= 1 THEN n ELSE 2 * AppendCap((n + 1) \div 2)

\* Whether Detect puts the URL u on its priority list.
IsPriorityName(base) == Contains(base, TokFramework) \/ Contains(base, TokMain)

IsPriorityParsed(parsedURL) == ~parsedURL.err /\ IsPriorityName(PathBase(parsedURL.path))

IsPriorityURL(u) == IsPriorityParsed(ParseURL(u))

\* allURLs := append(priorityURLs, otherURLs...) writes into the array of
\* priorityURLs when that has room for otherURLs, and the two then share it.
SharesArray(priority, other) ==
    Len(other) > 0 /\ Len(priority) + Len(other) <= AppendCap(Len(priority))

\* The three lists after "Prepare URL Lists": sort.Strings(allURLs) sorts the
\* shared array in place, so that priorityURLs, its first elements, changes.
URLLists(priority, other, all) ==
    [priorityURLs |-> IF SharesArray(priority, other)
                      THEN SubSeq(all, 1, Len(priority)) ELSE priority,
     otherURLs |-> other,
     allURLs |-> all]

\* The asset URLs of the model.
ChunkDir == <<"h","t","t","p","s",":","/","/","x",".","t","e","s","t","/","_","n","e","x","t","/","s","t","a","t","i","c","/","c","h","u","n","k","s","/">>

\* The URLs a set is drawn from: a script that sorts before the priority
\* ones, three priority scripts, a script that sorts after them, and a script
\* with "main" in a directory name only.
URLUniverse ==
    <<ChunkDir \o <<"a","p","p",".","j","s">>,
      ChunkDir \o <<"m","a","i","n","-","a",".","j","s">>,
      ChunkDir \o <<"f","r","a","m","e","w","o","r","k","-","b",".","j","s">>,
      ChunkDir \o <<"m","a","i","n","-","c",".","j","s">>,
      ChunkDir \o <<"p","a","g","e","s",".","j","s">>,
      <<"h","t","t","p","s",":","/","/","x",".","t","e","s","t","/","_","n","e","x","t","/","s","t","a","t","i","c","/","m","a","i","n","/","z","z","z",".","j","s">>>>

\* How many URLs of URLUniverse the sets of the first family are drawn from.
MaxURLs == 4

\* The orders in which a range over the map, or set, S may enumerate it.
Orders(S) ==
    {f \in [1..Cardinality(S) -> S] :
        \A i, j \in 1..Cardinality(S) : f[i] = f[j] => i = j}

\* for u := range jsAssetURLs, enumerating the set in the order given, from
\* its i-th URL on: each URL is appended to one of the two lists.
RECURSIVE CollectURLs(_, _, _, _)
CollectURLs(order, i, priority, other) ==
    IF i > Len(order) THEN [priority |-> priority, other |-> other]
    ELSE IF IsPriorityURL(order[i])
    THEN CollectURLs(order, i + 1, Append(priority, order[i]), other)
    ELSE CollectURLs(order, i + 1, priority, Append(other, order[i]))

\* allURLs := append(priorityURLs, otherURLs...); sort.Strings(allURLs)
AllOf(priority, other) == URLLists(priority, other, SortStringSeq(priority \o other))

\* The lists as the loop left them, without the three calls of sort.Strings.
PrepareURLListsUnsorted(order) ==
    [priorityURLs |-> CollectURLs(order, 1, <<>>, <<>>).priority,
     otherURLs |-> CollectURLs(order, 1, <<>>, <<>>).other,
     allURLs |-> CollectURLs(order, 1, <<>>, <<>>).priority
                    \o CollectURLs(order, 1, <<>>, <<>>).other]

\* sort.Strings(priorityURLs); sort.Strings(otherURLs)
SortedLists(collected) ==
    AllOf(SortStringSeq(collected.priority), SortStringSeq(collected.other))

\* "Prepare URL Lists", the range enumerating jsAssetURLs in the order given.
PrepareURLLists(order) == SortedLists(CollectURLs(order, 1, <<>>, <<>>))

\* The lists Detect may be left with for the set urls: those of every order
\* the range may enumerate it in. (The table holds them for the sets drawn
\* from the first MaxURLs URLs, as an explicit function, so that they are
\* computed once a set.)
ListsOfOrders(urls) == {PrepareURLLists(order) : order \in Orders(urls)}

ListsTable ==
    [S \in SUBSET {URLUniverse[i] : i \in 1..MaxURLs} |-> ListsOfOrders(S)] @@ <<>>

PossibleLists(urls) ==
    IF urls \in DOMAIN ListsTable THEN ListsTable[urls] ELSE ListsOfOrders(urls)

(***************************************************************************)
(* The route/asset resolver (package scanner). A manifest is a function    *)
(* from route keys to values; a value is [t |-> "list", items |-> ...],    *)
(* [t |-> "str", s |-> ...] or [t |-> "other"] (what the type assertions   *)
(* of the code tell apart), and an item of a list is a "str" or an "other".*)
(***************************************************************************)
ExtJS == <<".","j","s">>
ExtCSS == <<".","c","s","s">>
NextDir == <<"_","n","e","x","t">>
SentinelPrefix == <<"_","_">>
SortedPagesKey == <<"s","o","r","t","e","d","P","a","g","e","s">>

StrVal(text) == [t |-> "str", s |-> text]
ListVal(items) == [t |-> "list", items |-> items]
OtherVal == [t |-> "other"]

\* Whether the loop of extractRoutesAndAssets skips the key.
IsSentinelKey(routePath) ==
    HasPrefix(routePath, SentinelPrefix) \/ routePath = SortedPagesKey

\* An asset list that takes every string as a one-element list: AssetListOf
\* without the test of the suffix.
AssetListOfAnyString(assetsInterface) ==
    IF assetsInterface.t = "list" THEN [ok |-> TRUE, list |-> assetsInterface.items]
    ELSE IF assetsInterface.t = "str"
    THEN [ok |-> TRUE, list |-> <<assetsInterface>>]
    ELSE [ok |-> FALSE, list |-> <<>>]

\* The asset list of a value: the list itself, a one-element list for a
\* string ending in .js or .css; ok = FALSE when the route is skipped.
AssetListOf(assetsInterface) ==
    IF assetsInterface.t = "list" THEN [ok |-> TRUE, list |-> assetsInterface.items]
    ELSE IF assetsInterface.t = "str"
            /\ (HasSuffix(assetsInterface.s, ExtJS) \/ HasSuffix(assetsInterface.s, ExtCSS))
    THEN [ok |-> TRUE, list |-> <<assetsInterface>>]
    ELSE [ok |-> FALSE, list |-> <<>>]

\* The URL the inner loop builds for one asset path.
FullAssetURL(baseURLParsed, assetPath) ==
    URLString([EmptyURL EXCEPT
                 !.scheme = baseURLParsed.scheme,
                 !.host = baseURLParsed.host,
                 !.path = PathJoin(<<baseURLParsed.path, NextDir,
                                     TrimPrefix(assetPath, Slash)>>)])

\* The inner loop: the URLs of the items that are strings ending in .js or
\* .css, in the order of the list.
RECURSIVE RouteAssets(_, _)
\* What one item of the list adds to the URLs of its route.
ItemAssets(baseURLParsed, item) ==
    IF item.t = "str" /\ (HasSuffix(item.s, ExtJS) \/ HasSuffix(item.s, ExtCSS))
    THEN <<FullAssetURL(baseURLParsed, item.s)>>
    ELSE <<>>

RouteAssets(baseURLParsed, assetList) ==
    IF assetList = <<>> THEN <<>>
    ELSE ItemAssets(baseURLParsed, Head(assetList))
            \o RouteAssets(baseURLParsed, Tail(assetList))

\* extractRoutesAndAssets(manifestData, assetBaseURL): the routes and the set
\* of all assets.
\* baseURLParsed, _ := url.Parse(assetBaseURL): the error is dropped
ParsedOrEmpty(parsed) == IF parsed.err THEN EmptyURL ELSE parsed

\* One turn of the outer loop that stores the asset list as the inner loop
\* left it: RouteAdded without sort.Strings.
RouteAddedUnsorted(routes, routePath, assetList, baseURLParsed) ==
    IF IsSentinelKey(routePath) \/ ~assetList.ok THEN routes
    ELSE (routePath :> RouteAssets(baseURLParsed, assetList.list)) @@ routes

\* One turn of the outer loop: the key is skipped, or its sorted asset list
\* is stored in routes.
RouteAdded(routes, routePath, assetList, baseURLParsed) ==
    IF IsSentinelKey(routePath) \/ ~assetList.ok THEN routes
    ELSE (routePath :> SortStringSeq(RouteAssets(baseURLParsed, assetList.list)))
            @@ routes

\* The outer loop, the range enumerating the keys of manifestData in the
\* order given, from its i-th key on.
RECURSIVE RoutesLoop(_, _, _, _, _)
RoutesLoop(manifestData, baseURLParsed, order, i, routes) ==
    IF i > Len(order) THEN routes
    ELSE RoutesLoop(manifestData, baseURLParsed, order, i + 1,
                    RouteAdded(routes, order[i], AssetListOf(manifestData[order[i]]),
                               baseURLParsed))

RoutesOf(manifestData, baseURLParsed, order) ==
    RoutesLoop(manifestData, baseURLParsed, order, 1, <<>>)

\* The URLs the inner loop puts into allAssets, one by one, for a list.
ListedAssets(built) == {built[i] : i \in 1..Len(built)}

\* One turn of the outer loop, for allAssets: the key is skipped, or every
\* URL the inner loop builds is put into the set.
AssetsAdded(allAssets, routePath, assetList, baseURLParsed) ==
    IF IsSentinelKey(routePath) \/ ~assetList.ok THEN allAssets
    ELSE allAssets \cup ListedAssets(RouteAssets(baseURLParsed, assetList.list))

\* The outer loop, for allAssets, from the i-th key on.
RECURSIVE AssetsLoop(_, _, _, _, _)
AssetsLoop(manifestData, baseURLParsed, order, i, allAssets) ==
    IF i > Len(order) THEN allAssets
    ELSE AssetsLoop(manifestData, baseURLParsed, order, i + 1,
                    AssetsAdded(allAssets, order[i], AssetListOf(manifestData[order[i]]),
                                baseURLParsed))

extractRoutesAndAssets(manifestData, assetBase, order) ==
    [routes |-> RoutesOf(manifestData, ParsedOrEmpty(ParseURL(assetBase)), order),
     allAssets |-> AssetsLoop(manifestData, ParsedOrEmpty(ParseURL(assetBase)), order,
                              1, {})]

(***************************************************************************)
(* The scanner (package scanner): the functions ScanTarget calls.          *)
(*                                                                         *)
(* The HTML page is what goquery makes of it: the text of its              *)
(* __NEXT_DATA__ script tag, given by what json.Unmarshal makes of it, and *)
(* the src attributes of its script tags:                                  *)
(*   [nextData |-> [kind, buildId, assetPrefix, hasProps], scripts |-> {}] *)
(* with kind "absent" (no tag, or an empty one), "badjson" (not JSON) or   *)
(* "json". A build manifest is what goja makes of its script:              *)
(*   [exec |-> "object" | "error" | "notObject", data |-> the object]      *)
(***************************************************************************)
RawBadJSON == <<"{">>
RawJSON == <<"{","\"","p","r","o","p","s","\"",":","{","}",",","\"","b","u","i","l","d","I","d","\"",":","\"","\"","}">>

NextDataOf(kind, buildId, assetPrefix, hasProps) ==
    [kind |-> kind, buildId |-> buildId, assetPrefix |-> assetPrefix, hasProps |-> hasProps]

NoNextData == NextDataOf("absent", <<>>, <<>>, FALSE)
BadNextData == NextDataOf("badjson", <<>>, <<>>, FALSE)

\* findAndParseNextData(htmlBody): nextData (nil or its fields), the raw
\* text, and the error.
findAndParseNextData(html) ==
    LET nd == html.nextData
        none == [nextDataNil |-> TRUE, BuildID |-> <<>>, AssetPrefix |-> <<>>]
        some == [nextDataNil |-> FALSE, BuildID |-> nd.buildId, AssetPrefix |-> nd.assetPrefix]
    IN  IF nd.kind = "absent"
        THEN [nextData |-> none, raw |-> <<>>,
              err |-> NewError("findAndParseNextData:363", MsgNextDataNotFound)]
        ELSE IF nd.kind = "badjson"
        THEN [nextData |-> none, raw |-> RawBadJSON,
              err |-> WrapError("findAndParseNextData:369", MsgUnmarshal,
                                NewError("json.Unmarshal", MsgJSONSyntax))]
        ELSE IF nd.buildId = <<>> \/ ~nd.hasProps
        THEN [nextData |-> some, raw |-> RawJSON,
              err |-> NewError("findAndParseNextData:373", MsgMissingFields)]
        ELSE [nextData |-> some, raw |-> RawJSON, err |-> NilError]

\* A payload that sets IsNextJS and nothing else: ApplyNextData without the
\* assignments to BuildID and AssetPrefix.
ApplyNextDataFlagOnly(res, found) ==
    IF ~found.nextData.nextDataNil /\ (IsNilError(found.err) \/ found.nextData.BuildID # <<>>)
    THEN [res EXCEPT !.IsNextJS = TRUE]
    ELSE res

\* Lines 536-549: what the payload makes of IsNextJS, BuildID, AssetPrefix.
ApplyNextData(res, found) ==
    IF ~found.nextData.nextDataNil /\ (IsNilError(found.err) \/ found.nextData.BuildID # <<>>)
    THEN [res EXCEPT !.IsNextJS = TRUE,
                        !.BuildID = found.nextData.BuildID,
                        !.AssetPrefix = found.nextData.AssetPrefix]
    ELSE IF ~ErrorsIs(found.err, NewError("ScanTarget:542", MsgNextDataNotFound))
    THEN [res EXCEPT !.IsNextJS = FALSE]
    ELSE res

\* Lines 570-573 and 577-580: the prefix path appended to the custom base.
AppendPrefixPath(u, prefixPath) ==
    LET sep == IF ~HasSuffix(u.path, Slash) /\ ~HasPrefix(prefixPath, Slash)
               THEN Slash ELSE <<>>
    IN  [u EXCEPT !.path = u.path \o sep \o TrimPrefix(prefixPath, Slash)]

\* Lines 551-605: assetBaseParsedURL.
\* Lines 596-600: a "/" put after the path of the resolved prefix.
WithTrailingSlash(resolved) ==
    IF resolved.path # <<>> /\ ~HasSuffix(resolved.path, Slash)
    THEN [resolved EXCEPT !.path = @ \o Slash]
    ELSE resolved

\* Lines 551-605, customURL and prefixURL being what url.Parse made of the
\* custom base and of the asset prefix.
AssetBaseOf(custom, base, assetPrefix, customURL, prefixURL) ==
    IF custom # <<>>
    THEN IF customURL.err THEN base
         ELSE IF assetPrefix = <<>> THEN customURL
         ELSE IF ~prefixURL.err /\ IsAbs(prefixURL)
         THEN AppendPrefixPath(customURL, prefixURL.path)
         ELSE AppendPrefixPath(customURL, assetPrefix)
    ELSE IF assetPrefix = <<>> THEN base
         ELSE IF ~prefixURL.err /\ IsAbs(prefixURL) THEN prefixURL
         ELSE WithTrailingSlash(ResolveReference(base, PathURL(assetPrefix)))

ResolveAssetBase(custom, base, assetPrefix) ==
    AssetBaseOf(custom, base, assetPrefix, ParseURL(custom), ParseURL(assetPrefix))

\* Whether findInitialScriptURLs keeps the script src.
IsScriptURL(parsedSrc) == ~parsedSrc.err /\ HasSuffix(parsedSrc.path, ExtJS)

IsInitialScript(src) ==
    /\ src # <<>>
    /\ Contains(src, TokNextStatic)
    /\ IsScriptURL(ParseURL(src))

\* findInitialScriptURLs(htmlContent, assetBaseURL)
findInitialScriptURLs(html, assetBase) ==
    {URLString(ResolveReference(assetBase, ParseURL(src))) :
        src \in {s \in html.scripts : IsInitialScript(s)}}

\* Lines 625-638: manifestURL.
ManifestURL(assetBase, id) ==
    LET relativePath ==
            IF Contains(assetBase.path, TokNextSlash) \/ HasSuffix(assetBase.path, TokNextEnd)
            THEN PathJoin(<<StaticDir, id, BuildManifestFile>>)
            ELSE PathJoin(<<NextStaticDir, id, BuildManifestFile>>)
    IN  URLString(ResolveReference(assetBase, PathURL(relativePath)))

\* Lines 651-706: fallbackManifestURL, <<>> when none is built.
\* Lines 660-662: the scheme of the custom base, https when it has none.
FallbackScheme(customRoot) ==
    IF customRoot.scheme = <<>> THEN <<"h","t","t","p","s">> ELSE customRoot.scheme

\* Lines 683-686: the parts of the prefix after its first, as a path.
RemainingPath(assetPrefixParts) ==
    IF Len(assetPrefixParts) > 1
    THEN Slash \o Join(Tail(assetPrefixParts), "/") ELSE <<>>

\* Lines 664-700, customRoot and prefixURL being what url.Parse made of the
\* custom base and of the asset prefix.
FallbackOf(assetPrefix, fallbackPath, customRoot, prefixURL, assetPrefixParts) ==
    IF ~prefixURL.err /\ prefixURL.host # <<>>
    THEN FallbackScheme(customRoot) \o SchemeSep \o prefixURL.host
            \o PathJoin(<<prefixURL.path, fallbackPath>>)
    ELSE IF Contains(assetPrefix, Dot) /\ Contains(assetPrefixParts[1], Dot)
    THEN FallbackScheme(customRoot) \o SchemeSep \o assetPrefixParts[1]
            \o PathJoin(<<RemainingPath(assetPrefixParts), fallbackPath>>)
    ELSE <<>>

FallbackAfterParse(assetPrefix, id, customRoot) ==
    IF customRoot.err THEN <<>>
    ELSE FallbackOf(assetPrefix, PathJoin(<<NextStaticDir, id, BuildManifestFile>>),
                    customRoot, ParseURL(assetPrefix),
                    Split(TrimChar(assetPrefix, "/"), "/"))

\* A fallback that is built without asking for a custom base URL:
\* FallbackManifestURL without the first test of line 655.
FallbackManifestURLAnyBase(custom, assetPrefix, id) ==
    IF assetPrefix = <<>> THEN <<>>
    ELSE FallbackAfterParse(assetPrefix, id, ParseURL(custom))

FallbackManifestURL(custom, assetPrefix, id) ==
    IF custom = <<>> \/ assetPrefix = <<>> THEN <<>>
    ELSE FallbackAfterParse(assetPrefix, id, ParseURL(custom))

\* executeManifestJS(manifestJS): the object, or the error.
executeManifestJS(manifestJS) ==
    IF manifestJS.exec = "object" THEN [data |-> manifestJS.data, err |-> NilError]
    ELSE IF manifestJS.exec = "error"
    THEN [data |-> <<>>,
          err |-> WrapError("executeManifestJS:410", MsgGojaExecute,
                            NewError("goja", MsgGojaSyntax))]
    ELSE [data |-> <<>>, err |-> NewError("executeManifestJS:417", MsgGojaNotObject)]

\* A final error that wraps the manifest error without asking whether there
\* is one: FinalErrorOf without the test of line 787.
FinalErrorAlwaysWrapped(manifestError, dataErr, scripts, isNextJS) ==
    WrapError("ScanTarget:788", MsgManifestFailed, manifestError)

\* Lines 786-800: finalError.
FinalErrorOf(manifestError, dataErr, scripts, isNextJS) ==
    IF ~IsNilError(manifestError)
    THEN WrapError("ScanTarget:788", MsgManifestFailed, manifestError)
    ELSE IF ~IsNilError(dataErr)
            /\ ~ErrorsIs(dataErr, NewError("ScanTarget:790", MsgNextDataNotFound))
    THEN WrapError("ScanTarget:791", MsgNextDataError, dataErr)
    ELSE IF ErrorsIs(dataErr, NewError("ScanTarget:793", MsgNextDataNotFound))
            /\ scripts = {}
    THEN dataErr
    ELSE NilError

\* A test that takes "Unknown" for a version: IsConfidentVersion without the
\* prefix test.
IsConfidentVersionNoPrefixTest(versionFound) ==
    /\ versionFound # <<>>
    /\ ~Contains(versionFound, <<"L","i","k","e","l","y">>)

\* Line 804: the detected version is a version, not a marker or a hint.
IsConfidentVersion(versionFound) ==
    /\ versionFound # <<>>
    /\ ~HasPrefix(versionFound, Unknown)
    /\ ~Contains(versionFound, <<"L","i","k","e","l","y">>)

\* A retroactive check that drops whatever error there is once a version is
\* known: Retroactive without the tests of lines 802, 807 and 809.
RetroactiveDropsError(res, err) ==
    IF IsConfidentVersion(res.DetectedNextVersion)
    THEN [IsNextJS |-> TRUE, finalError |-> NilError]
    ELSE [IsNextJS |-> res.IsNextJS, finalError |-> err]

\* Lines 802-813: IsNextJS and finalError after the retroactive check.
Retroactive(res, err) ==
    IF ~res.IsNextJS /\ IsConfidentVersion(res.DetectedNextVersion)
    THEN [IsNextJS |-> TRUE,
          finalError |->
              IF ~IsNilError(err)
                 /\ (\/ ErrorsIs(err, NewError("ScanTarget:807", MsgNextDataNotFound))
                     \/ Contains(err.text, MsgUnsupported))
              THEN NilError ELSE err]
    ELSE [IsNextJS |-> res.IsNextJS, finalError |-> err]

\* ScanResult{BaseURL: base, Routes: ..., AllAssets: ...}
NewScanResult(base) ==
    [BaseURL |-> base, AssetBaseURL |-> <<>>, IsNextJS |-> FALSE, BuildID |-> <<>>,
     AssetPrefix |-> <<>>, Routes |-> <<>>, AllAssets |-> {}, ManifestFound |-> FALSE,
     ManifestExecOK |-> FALSE, ExecutionError |-> NilError, NextDataJSONRaw |-> <<>>,
     DetectedNextVersion |-> <<>>, DetectedReactVersion |-> <<>>]

(***************************************************************************)
(* Detect, statement by statement.                                         *)
(***************************************************************************)
detParams == <<buildID, jsAssetURLs, assetBaseURL, assetBaseNil, fetcherNil>>
detLists == <<priorityURLs, otherURLs, allURLs>>
probeHint == <<versionHint, foundHint>>
server == <<site, elsewhere, documents, readFails>>
scanInput == <<initialTargetURL, customBaseURL>>
scanLocals == <<result, baseURL, htmlContent, nextDataErr, assetBaseParsedURL,
                initialScriptURLs, manifestReader, manifestProcessingError,
                manifestAssets, finalError>>
scanReturn == <<retResult, retErr>>
scanVars == <<scanInput, scanLocals, scanReturn, spc>>

\* if fetcher == nil { return ... }, then "Prepare URL Lists"
DetectPrepare ==
    /\ dpc = "entry"
    /\ IF fetcherNil
       THEN /\ finalNextVersion' = UnknownMissingFetcher
            /\ finalReactVersion' = UnknownMissingFetcher
            /\ dpc' = "returned"
            /\ UNCHANGED detLists
       ELSE /\ \E lists \in PossibleLists(jsAssetURLs) :
                  /\ priorityURLs' = lists.priorityURLs
                  /\ otherURLs' = lists.otherURLs
                  /\ allURLs' = lists.allURLs
            /\ dpc' = "1a"
            /\ UNCHANGED <<finalNextVersion, finalReactVersion>>
    /\ UNCHANGED <<detParams, server, fetchCall, fetched, probeHint, scanVars>>

\* Strategy 1a: the window.next pattern on the priority URLs
Strategy1a ==
    /\ dpc = "1a"
    /\ \E r \in {detectWithWindowNextPattern(priorityURLs)} :
          /\ finalNextVersion' = IF r.found THEN r.version ELSE finalNextVersion
          /\ fetched' = fetched \o r.fetched
    /\ dpc' = "1b"
    /\ UNCHANGED <<detParams, server, fetchCall, detLists, finalReactVersion, probeHint, scanVars>>

\* Strategy 1b: the context pattern on the priority URLs, for React
Strategy1b ==
    /\ dpc = "1b"
    /\ \E r \in {detectWithSimpleContextPattern(priorityURLs, finalNextVersion, <<>>)} :
          /\ finalReactVersion' = IF r.react # <<>> THEN r.react ELSE finalReactVersion
          /\ fetched' = fetched \o r.fetched
    /\ dpc' = "1c"
    /\ UNCHANGED <<detParams, server, fetchCall, detLists, finalNextVersion, probeHint, scanVars>>

\* Strategy 1c: the window.next pattern on the other URLs
Strategy1c ==
    /\ dpc = "1c"
    /\ IF finalNextVersion = <<>>
       THEN \E r \in {detectWithWindowNextPattern(otherURLs)} :
               /\ finalNextVersion' = IF r.found THEN r.version ELSE finalNextVersion
               /\ fetched' = fetched \o r.fetched
       ELSE UNCHANGED <<finalNextVersion, fetched>>
    /\ dpc' = "2"
    /\ UNCHANGED <<detParams, server, fetchCall, detLists, finalReactVersion, probeHint, scanVars>>

\* Strategy 2: the context pattern on all URLs, for what is still missing
Strategy2 ==
    /\ dpc = "2"
    /\ IF finalNextVersion = <<>> \/ finalReactVersion = <<>>
       THEN \E r \in {detectWithSimpleContextPattern(allURLs, finalNextVersion,
                                                      finalReactVersion)} :
               /\ finalNextVersion' =
                     IF finalNextVersion = <<>> /\ r.next # <<>> THEN r.next
                     ELSE finalNextVersion
               /\ finalReactVersion' =
                     IF finalReactVersion = <<>> /\ r.react # <<>> THEN r.react
                     ELSE finalReactVersion
               /\ fetched' = fetched \o r.fetched
       ELSE UNCHANGED <<finalNextVersion, finalReactVersion, fetched>>
    /\ dpc' = "3"
    /\ UNCHANGED <<detParams, server, fetchCall, detLists, probeHint, scanVars>>

\* A probe that runs whatever the strategies before it found: Strategy3
\* without the test of line 231.
Strategy3Unguarded ==
    /\ dpc = "3"
    /\ \E r \in {detectWithAppManifestProbe(buildID, assetBaseURL, assetBaseNil,
                                            fetcherNil)} :
          /\ versionHint' = r.versionHint
          /\ foundHint' = r.found
          /\ finalNextVersion' = IF r.found THEN r.versionHint ELSE finalNextVersion
          /\ fetched' = fetched \o r.fetched
    /\ dpc' = "cleanup"
    /\ UNCHANGED <<detParams, server, fetchCall, detLists, finalReactVersion, scanVars>>

\* Strategy 3: the app manifest probe, when the Next.js version is unknown
Strategy3 ==
    /\ dpc = "3"
    /\ IF finalNextVersion = <<>>
       THEN \E r \in {detectWithAppManifestProbe(buildID, assetBaseURL, assetBaseNil,
                                                  fetcherNil)} :
               /\ versionHint' = r.versionHint
               /\ foundHint' = r.found
               /\ finalNextVersion' = IF r.found THEN r.versionHint ELSE finalNextVersion
               /\ fetched' = fetched \o r.fetched
       ELSE UNCHANGED <<finalNextVersion, fetched, probeHint>>
    /\ dpc' = "cleanup"
    /\ UNCHANGED <<detParams, server, fetchCall, detLists, finalReactVersion, scanVars>>

\* Final Cleanup, and the return
FinalCleanup ==
    /\ dpc = "cleanup"
    /\ finalNextVersion' = IF finalNextVersion = <<>> THEN Unknown ELSE finalNextVersion
    /\ finalReactVersion' = IF finalReactVersion = <<>> THEN Unknown ELSE finalReactVersion
    /\ dpc' = "returned"
    /\ UNCHANGED <<detParams, server, fetchCall, detLists, fetched, probeHint, scanVars>>

\* A step of Detect; ScanTarget waits for its return.
DetectStep ==
    \/ DetectPrepare
    \/ Strategy1a
    \/ Strategy1b
    \/ Strategy1c
    \/ Strategy2
    \/ Strategy3
    \/ FinalCleanup

(***************************************************************************)
(* ScanTarget, statement by statement. Detect runs between CallDetect and  *)
(* DetectReturned.                                                         *)
(***************************************************************************)
detLocals == <<detLists, finalNextVersion, finalReactVersion, probeHint, dpc>>
NoReader == [isNil |-> TRUE, body |-> <<>>, finalURL |-> <<>>, url |-> <<>>]

\* targetURL: the parameter, with https:// put before it when it names no scheme
TargetURL ==
    IF ~HasPrefix(initialTargetURL, SchemeHTTP) /\ ~HasPrefix(initialTargetURL, SchemeHTTPS)
    THEN SchemeHTTPS \o initialTargetURL ELSE initialTargetURL

\* return &result, err
Return(res, err) ==
    /\ result' = [res EXCEPT !.ExecutionError = err]
    /\ retResult' = "result"
    /\ retErr' = err
    /\ spc' = "returned"

\* Lines 484-530: the fetch of the page, its final URL and its body.
FetchPage ==
    /\ spc = "entry"
    /\ fetched' = fetched \o <<TargetURL>>
    /\ \E r \in {FetcherFetch(TargetURL)} :
       \E parsedFinal \in {ParseURL(r.finalURL)} :
          IF r.hasErr
          THEN /\ \E parsedBaseUrl \in {ParseURL(TargetURL)} :
                     Return([NewScanResult(TargetURL) EXCEPT
                                !.AssetBaseURL = IF parsedBaseUrl.err THEN <<>>
                                                 ELSE URLString(parsedBaseUrl)],
                            WrapError("ScanTarget:501",
                                      MsgInitialFetch \o TargetURL \o ColonSpace,
                                      FetchError(r)))
               /\ UNCHANGED <<baseURL, htmlContent>>
          ELSE IF parsedFinal.err
          THEN /\ Return(NewScanResult(initialTargetURL),
                         WrapError("ScanTarget:514",
                                   MsgInvalidFinalURL \o r.finalURL \o MsgReceived,
                                   NewError("url.Parse", MsgParse)))
               /\ UNCHANGED <<baseURL, htmlContent>>
          ELSE IF TargetURL \in readFails
          THEN /\ Return(NewScanResult(URLString(parsedFinal)),
                         WrapError("ScanTarget:527",
                                   MsgReadBody \o r.finalURL \o ColonSpace,
                                   NewError("io.ReadAll", MsgReadError)))
               /\ baseURL' = parsedFinal
               /\ UNCHANGED htmlContent
          ELSE /\ result' = NewScanResult(URLString(parsedFinal))
               /\ baseURL' = parsedFinal
               /\ htmlContent' = r.body
               /\ spc' = "nextData"
               /\ UNCHANGED scanReturn
    /\ UNCHANGED <<scanInput, nextDataErr, assetBaseParsedURL, initialScriptURLs,
                   manifestReader, manifestProcessingError, manifestAssets, finalError,
                   server, fetchCall, detParams, detLocals>>

\* Lines 532-549: the __NEXT_DATA__ payload.
ProcessNextData ==
    /\ spc = "nextData"
    /\ \E found \in {findAndParseNextData(htmlContent)} :
          /\ nextDataErr' = found.err
          /\ result' = ApplyNextData([result EXCEPT !.NextDataJSONRaw = found.raw], found)
    /\ spc' = "assetBase"
    /\ UNCHANGED <<scanInput, baseURL, htmlContent, assetBaseParsedURL, initialScriptURLs,
                   manifestReader, manifestProcessingError, manifestAssets, finalError,
                   scanReturn, server, fetchCall, fetched, detParams, detLocals>>

\* Lines 551-614: the asset base and the script tags of the page.
ResolveAssets ==
    /\ spc = "assetBase"
    /\ \E base \in {ResolveAssetBase(customBaseURL, baseURL, result.AssetPrefix)} :
       \E scripts \in {findInitialScriptURLs(htmlContent, base)} :
          /\ assetBaseParsedURL' = base
          /\ initialScriptURLs' = scripts
          /\ result' = [result EXCEPT
                          !.AssetBaseURL = URLString(base),
                          !.IsNextJS =
                              IF ErrorsIs(nextDataErr,
                                          NewError("ScanTarget:611", MsgNextDataNotFound))
                                 /\ scripts # {}
                              THEN TRUE ELSE @]
    /\ spc' = IF result.BuildID # <<>> THEN "manifest" ELSE "noManifest"
    /\ UNCHANGED <<scanInput, baseURL, htmlContent, nextDataErr, manifestReader,
                   manifestProcessingError, manifestAssets, finalError, scanReturn,
                   server, fetchCall, fetched, detParams, detLocals>>

\* The reader Fetch returned for url, and the final URL.
ReaderOf(r, url) == [isNil |-> FALSE, body |-> r.body, finalURL |-> r.finalURL, url |-> url]

\* Lines 704, 707 and 712: the error of a manifest that could not be fetched.
ManifestFetchError(manifestURL, suffix, r) ==
    WrapError("ScanTarget:fetchManifest",
              MsgFetchManifest \o manifestURL \o suffix \o ColonSpace, FetchError(r))

\* Lines 620-728: the fetch of the build manifest, and of the fallback.
FetchManifest ==
    /\ spc = "manifest"
    /\ \E manifestURL \in {ManifestURL(assetBaseParsedURL, result.BuildID)} :
       \E r \in {FetcherFetch(manifestURL)} :
       \E fallbackManifestURL \in
              {FallbackManifestURL(customBaseURL, result.AssetPrefix, result.BuildID)} :
       \E fallback \in {FetcherFetch(fallbackManifestURL)} :
          IF ~r.hasErr
          THEN /\ manifestReader' = ReaderOf(r, manifestURL)
               /\ manifestProcessingError' = NilError
               /\ fetched' = fetched \o <<manifestURL>>
          ELSE IF fallbackManifestURL = <<>>
          THEN /\ manifestReader' = NoReader
               /\ manifestProcessingError' = ManifestFetchError(manifestURL, <<>>, r)
               /\ fetched' = fetched \o <<manifestURL>>
          ELSE IF ~fallback.hasErr
          THEN /\ manifestReader' = ReaderOf(fallback, fallbackManifestURL)
               /\ manifestProcessingError' = NilError
               /\ fetched' = fetched \o <<manifestURL, fallbackManifestURL>>
          ELSE /\ manifestReader' = NoReader
               /\ manifestProcessingError' =
                      ManifestFetchError(manifestURL, MsgAndFallback, r)
               /\ fetched' = fetched \o <<manifestURL, fallbackManifestURL>>
    /\ spc' = "readManifest"
    /\ UNCHANGED <<scanInput, result, baseURL, htmlContent, nextDataErr, assetBaseParsedURL,
                   initialScriptURLs, manifestAssets, finalError, scanReturn, server, fetchCall,
                   detParams, detLocals>>

\* Lines 730-759: the manifest read, run and resolved.
ProcessManifest ==
    /\ spc = "readManifest"
    /\ IF manifestReader.isNil
       THEN UNCHANGED <<result, manifestProcessingError, manifestAssets>>
       ELSE IF manifestReader.url \in readFails
       THEN /\ result' = [result EXCEPT !.ManifestFound = TRUE]
            /\ manifestProcessingError' =
                   WrapError("ScanTarget:741",
                             MsgReadManifest \o manifestReader.finalURL \o ColonSpace,
                             NewError("io.ReadAll", MsgReadError))
            /\ UNCHANGED manifestAssets
       ELSE \E exec \in {executeManifestJS(manifestReader.body)} :
               IF ~IsNilError(exec.err)
               THEN /\ result' = [result EXCEPT !.ManifestFound = TRUE]
                    /\ manifestProcessingError' =
                           WrapError("ScanTarget:750", MsgGojaFailed, exec.err)
                    /\ UNCHANGED manifestAssets
               ELSE \E order \in Orders(DOMAIN exec.data) :
                    \E extracted \in
                           {extractRoutesAndAssets(exec.data, result.AssetBaseURL,
                                                   order)} :
                       /\ result' = [result EXCEPT !.ManifestFound = TRUE,
                                                   !.ManifestExecOK = TRUE,
                                                   !.Routes = extracted.routes,
                                                   !.AllAssets = extracted.allAssets]
                       /\ manifestAssets' = extracted.allAssets
                       /\ UNCHANGED manifestProcessingError
    /\ spc' = "detect"
    /\ UNCHANGED <<scanInput, baseURL, htmlContent, nextDataErr, assetBaseParsedURL,
                   initialScriptURLs, manifestReader, finalError, scanReturn, server, fetchCall,
                   fetched, detParams, detLocals>>

\* Lines 760-767: no build id, no manifest.
SkipManifest ==
    /\ spc = "noManifest"
    /\ result' = [result EXCEPT !.AllAssets = @ \cup initialScriptURLs]
    /\ spc' = "detect"
    /\ UNCHANGED <<scanInput, baseURL, htmlContent, nextDataErr, assetBaseParsedURL,
                   initialScriptURLs, manifestReader, manifestProcessingError,
                   manifestAssets, finalError, scanReturn, server, fetchCall, fetched, detParams,
                   detLocals>>

\* The merged set with every manifest asset in it: CombinedJSAssets without
\* the test of line 775.
CombinedJSAssetsUnfiltered ==
    initialScriptURLs \cup
        (IF result.ManifestFound /\ result.ManifestExecOK THEN manifestAssets ELSE {})

\* Lines 769-779: combinedJSAssets.
CombinedJSAssets ==
    initialScriptURLs \cup
        (IF result.ManifestFound /\ result.ManifestExecOK
         THEN {u \in manifestAssets : HasSuffix(u, ExtJS)} ELSE {})

\* Line 782: the call of s.versionDetector.Detect.
CallDetect ==
    /\ spc = "detect"
    /\ buildID' = result.BuildID
    /\ jsAssetURLs' = CombinedJSAssets
    /\ assetBaseURL' = assetBaseParsedURL
    /\ assetBaseNil' = FALSE
    /\ fetcherNil' = FALSE
    /\ dpc' = "entry"
    /\ spc' = "detecting"
    /\ UNCHANGED <<scanInput, scanLocals, scanReturn, server, fetchCall, fetched, detLists,
                   finalNextVersion, finalReactVersion, probeHint>>

\* Lines 782-800: Detect's return, and the choice of the final error.
DetectReturned ==
    /\ spc = "detecting"
    /\ dpc = "returned"
    /\ result' = [result EXCEPT !.DetectedNextVersion = finalNextVersion,
                                !.DetectedReactVersion = finalReactVersion]
    /\ finalError' = FinalErrorOf(manifestProcessingError, nextDataErr, initialScriptURLs,
                                  result.IsNextJS)
    /\ spc' = "retroactive"
    /\ UNCHANGED <<scanInput, baseURL, htmlContent, nextDataErr, assetBaseParsedURL,
                   initialScriptURLs, manifestReader, manifestProcessingError,
                   manifestAssets, scanReturn, server, fetchCall, fetched, detParams, detLocals>>

\* Lines 802-817: the retroactive check, and the return.
RetroactiveCheck ==
    /\ spc = "retroactive"
    /\ \E after \in {Retroactive(result, finalError)} :
          /\ finalError' = after.finalError
          /\ Return([result EXCEPT !.IsNextJS = after.IsNextJS], after.finalError)
    /\ UNCHANGED <<scanInput, baseURL, htmlContent, nextDataErr, assetBaseParsedURL,
                   initialScriptURLs, manifestReader, manifestProcessingError,
                   manifestAssets, server, fetchCall, fetched, detParams, detLocals>>

ScanStep ==
    \/ FetchPage
    \/ ProcessNextData
    \/ ResolveAssets
    \/ FetchManifest
    \/ ProcessManifest
    \/ SkipManifest
    \/ CallDetect
    \/ DetectReturned
    \/ RetroactiveCheck

\* ScanTarget is not running: Detect is called on its own.
ScanIdle ==
    /\ initialTargetURL = <<>>
    /\ customBaseURL = <<>>
    /\ result = NewScanResult(<<>>)
    /\ baseURL = EmptyURL
    /\ htmlContent = <<>>
    /\ nextDataErr = NilError
    /\ assetBaseParsedURL = EmptyURL
    /\ initialScriptURLs = {}
    /\ manifestReader = NoReader
    /\ manifestProcessingError = NilError
    /\ manifestAssets = {}
    /\ finalError = NilError
    /\ retResult = "nil"
    /\ retErr = NilError
    /\ spc = "idle"

(***************************************************************************)
(* Detect called on its own: the URL sets, servers and parameters it is    *)
(* checked on.                                                             *)
(***************************************************************************)
TestBuildID == <<"b","1">>
TestAssetBase == ParseURL(<<"h","t","t","p","s",":","/","/","x",".","t","e","s","t","/">>)

\* First family: every set of the first MaxURLs URLs, each serving one of a
\* few files.
OrderingFiles == {"direct", "lit9", "react18", "empty"}

InitDetectOrdering ==
    /\ \E S \in SUBSET {URLUniverse[i] : i \in 1..MaxURLs} :
          /\ jsAssetURLs = S
          /\ site \in [S -> OrderingFiles]
    /\ elsewhere = "s404"
    /\ readFails = {}
    /\ buildID = TestBuildID
    /\ assetBaseNil = FALSE
    /\ fetcherNil = FALSE

\* Second family: a priority script and another script, each answering in any
\* way, with any answer to the probe and with or without a build id.
InitDetectContent ==
    /\ \E S \in SUBSET {URLUniverse[1], URLUniverse[2]} :
          /\ jsAssetURLs = S
          /\ site \in [S -> FileIds \cup FailBehaviours]
    /\ elsewhere \in {"empty"} \cup FailBehaviours
    /\ readFails \in {{}, {URLUniverse[2]}}
    /\ buildID \in {<<>>, TestBuildID}
    /\ assetBaseNil = FALSE
    /\ fetcherNil = FALSE

\* Third family: a missing asset base or fetcher.
InitDetectNil ==
    /\ jsAssetURLs = {URLUniverse[2]}
    /\ site \in [jsAssetURLs -> {"empty", "lit9"}]
    /\ elsewhere = "s404"
    /\ readFails = {}
    /\ buildID = TestBuildID
    /\ assetBaseNil \in BOOLEAN
    /\ fetcherNil \in BOOLEAN
    /\ assetBaseNil \/ fetcherNil

InitDetect ==
    /\ InitDetectOrdering \/ InitDetectContent \/ InitDetectNil
    /\ assetBaseURL = TestAssetBase
    /\ priorityURLs = <<>>
    /\ otherURLs = <<>>
    /\ allURLs = <<>>
    /\ finalNextVersion = <<>>
    /\ finalReactVersion = <<>>
    /\ versionHint = <<>>
    /\ foundHint = FALSE
    /\ fetched = <<>>
    /\ FetchIdle
    /\ dpc = "entry"
    /\ documents = <<>>
    /\ ScanIdle

(***************************************************************************)
(* The scans the model runs: the sites, pages and manifests ScanTarget is  *)
(* checked on.                                                             *)
(***************************************************************************)
Targets == {<<"x",".","t","e","s","t">>, <<"h","t","t","p","s",":","/","/","x",".","t","e","s","t","/">>}

\* The src attributes a page's script tags are drawn from: two chunks, a
\* script outside /_next/static/, and a /_next/static/ file that is no script.
ScriptSrcs ==
    <<<<"/","_","n","e","x","t","/","s","t","a","t","i","c","/","c","h","u","n","k","s","/","m","a","i","n","-","a",".","j","s">>,
      <<"/","_","n","e","x","t","/","s","t","a","t","i","c","/","c","h","u","n","k","s","/","a","p","p",".","j","s">>,
      <<"/","j","s","/","s","i","t","e",".","j","s">>,
      <<"/","_","n","e","x","t","/","s","t","a","t","i","c","/","m","e","d","i","a","/","d","a","t","a",".","j","s","o","n">>,
      <<"h","t","t","p","s",":","/","/","c","d","n",".","t","e","s","t","/","_","n","e","x","t","/","s","t","a","t","i","c","/","c","h","u","n","k","s","/","f","r","a","m","e","w","o","r","k","-","b",".","j","s">>>>

\* How many of ScriptSrcs the pages of the first family draw their tags from.
MaxScripts == 3

\* The manifest of the round-trip example.
RoundTripManifest ==
    (<<"/","a">> :> ListVal(<<StrVal(<<"/","s","t","a","t","i","c","/","c","h","u","n","k","s","/","a",".","j","s">>)>>))
        @@ (<<"/","b">> :> StrVal(<<"/","s","t","a","t","i","c","/","c","h","u","n","k","s","/","b",".","c","s","s">>))

\* A manifest with keys of every kind: two sentinel keys holding lists, a
\* value that is neither list nor string, a string that names no asset, a
\* string that names one, and a list with items of every kind, its two
\* assets in descending order.
MixedManifest ==
    (<<"_","_","r">> :> ListVal(<<StrVal(<<"/","r",".","j","s">>)>>))
        @@ (SortedPagesKey :> ListVal(<<StrVal(<<"/","s",".","j","s">>)>>))
        @@ (<<"/","c">> :> OtherVal)
        @@ (<<"/","d">> :> StrVal(<<"/","d",".","t","x","t">>))
        @@ (<<"/","e">> :> StrVal(<<"/","e",".","j","s">>))
        @@ (<<"/","f">> :> ListVal(<<OtherVal, StrVal(<<"/","f",".","m","a","p">>),
                                     StrVal(<<"/","z",".","j","s">>),
                                     StrVal(<<"/","a",".","c","s","s">>)>>))

ManifestDocs ==
    {[exec |-> "object", data |-> RoundTripManifest],
     [exec |-> "object", data |-> MixedManifest],
     [exec |-> "error", data |-> <<>>],
     [exec |-> "notObject", data |-> <<>>]}

\* Where a site may serve its build manifest.
ManifestLocations ==
    {<<"h","t","t","p","s",":","/","/","x",".","t","e","s","t","/","_","n","e","x","t","/","s","t","a","t","i","c","/","b","1","/","_","b","u","i","l","d","M","a","n","i","f","e","s","t",".","j","s">>,
     <<"h","t","t","p","s",":","/","/","x",".","t","e","s","t","/","s","h","o","p","/","_","n","e","x","t","/","s","t","a","t","i","c","/","b","1","/","_","b","u","i","l","d","M","a","n","i","f","e","s","t",".","j","s">>,
     <<"h","t","t","p","s",":","/","/","c","d","n",".","t","e","s","t","/","_","n","e","x","t","/","s","t","a","t","i","c","/","b","1","/","_","b","u","i","l","d","M","a","n","i","f","e","s","t",".","j","s">>,
     <<"h","t","t","p","s",":","/","/","c","d","n",".","t","e","s","t","/","a","s","s","e","t","s","/","_","n","e","x","t","/","s","t","a","t","i","c","/","b","1","/","_","b","u","i","l","d","M","a","n","i","f","e","s","t",".","j","s">>,
     <<"h","t","t","p","s",":","/","/","p","r","o","x","y",".","t","e","s","t","/","_","n","e","x","t","/","s","t","a","t","i","c","/","b","1","/","_","b","u","i","l","d","M","a","n","i","f","e","s","t",".","j","s">>}

DefaultManifestLocation == <<"h","t","t","p","s",":","/","/","x",".","t","e","s","t","/","_","n","e","x","t","/","s","t","a","t","i","c","/","b","1","/","_","b","u","i","l","d","M","a","n","i","f","e","s","t",".","j","s">>

AssetPrefixes == {<<>>, <<"/","s","h","o","p">>, <<"h","t","t","p","s",":","/","/","c","d","n",".","t","e","s","t","/","a","s","s","e","t","s">>, <<"c","d","n",".","t","e","s","t","/","a","s","s","e","t","s">>, <<"/","_","n","e","x","t">>}
CustomBaseURLs == {<<>>, <<"h","t","t","p","s",":","/","/","p","r","o","x","y",".","t","e","s","t","/","b","a","s","e">>, <<":","b","a","d">>}

Served(doc) == [how |-> "ok", doc |-> doc]
Page(nextData, scripts) == [nextData |-> nextData, scripts |-> scripts]

\* The payloads of the first family: none, broken, and with or without a
\* build id and props.
Payloads ==
    {NoNextData, BadNextData}
        \cup {NextDataOf("json", id, <<>>, p) : id \in {<<>>, TestBuildID}, p \in BOOLEAN}

ScanFiles == {"empty", "lit9", "react18"}

\* First family: every payload with every set of script tags, the two chunks
\* serving any of a few files, with and without a manifest.
InitScanPayload ==
    /\ initialTargetURL = <<"h","t","t","p","s",":","/","/","x",".","t","e","s","t","/">>
    /\ customBaseURL = <<>>
    /\ \E nd \in Payloads, tags \in SUBSET {ScriptSrcs[i] : i \in 1..MaxScripts},
          manifest \in BOOLEAN :
          documents = (TargetURL :> Served(Page(nd, tags)))
                         @@ (IF manifest
                             THEN (DefaultManifestLocation :>
                                      Served([exec |-> "object", data |-> RoundTripManifest]))
                             ELSE <<>>)
    /\ site \in [{URLUniverse[1], URLUniverse[2]} -> ScanFiles]
    /\ elsewhere \in {"s404", "s500"}
    /\ readFails = {}

\* Second family: every asset prefix and custom base URL, with the manifest
\* served at one of the locations, or nowhere.
InitScanManifest ==
    /\ initialTargetURL = <<"h","t","t","p","s",":","/","/","x",".","t","e","s","t","/">>
    /\ customBaseURL \in CustomBaseURLs
    /\ \E prefix \in AssetPrefixes :
          LET page == Served(Page(NextDataOf("json", TestBuildID, prefix, TRUE),
                                  {ScriptSrcs[1]}))
          IN  \/ /\ documents = (TargetURL :> page)
                 /\ readFails = {}
              \/ \E at \in ManifestLocations, doc \in ManifestDocs :
                    /\ documents = (TargetURL :> page) @@ (at :> Served(doc))
                    /\ readFails \in {{}, {at}}
    /\ site \in [{URLUniverse[2]} -> {"lit9", "empty"}]
    /\ elsewhere = "s404"

\* Third family: the page fails, in each way.
InitScanPage ==
    /\ initialTargetURL \in Targets
    /\ customBaseURL = <<>>
    /\ \/ /\ \E how \in FailBehaviours \cup {"badfinal"} :
                documents = (TargetURL :> [how |-> how, doc |-> Page(NoNextData, {})])
          /\ readFails = {}
       \/ /\ documents = (TargetURL :> Served(Page(NoNextData, {})))
          /\ readFails \in {{}, {TargetURL}}
    /\ site = <<>>
    /\ elsewhere = "s404"

\* Detect is not running.
DetectIdle ==
    /\ buildID = <<>>
    /\ jsAssetURLs = {}
    /\ assetBaseURL = EmptyURL
    /\ assetBaseNil = FALSE
    /\ fetcherNil = FALSE
    /\ priorityURLs = <<>>
    /\ otherURLs = <<>>
    /\ allURLs = <<>>
    /\ finalNextVersion = <<>>
    /\ finalReactVersion = <<>>
    /\ versionHint = <<>>
    /\ foundHint = FALSE
    /\ dpc = "idle"

InitScan ==
    /\ InitScanPayload \/ InitScanManifest \/ InitScanPage
    /\ result = NewScanResult(<<>>)
    /\ baseURL = EmptyURL
    /\ htmlContent = <<>>
    /\ nextDataErr = NilError
    /\ assetBaseParsedURL = EmptyURL
    /\ initialScriptURLs = {}
    /\ manifestReader = NoReader
    /\ manifestProcessingError = NilError
    /\ manifestAssets = {}
    /\ finalError = NilError
    /\ retResult = "nil"
    /\ retErr = NilError
    /\ spc = "entry"
    /\ fetched = <<>>
    /\ DetectIdle
    /\ FetchIdle

vars == <<detParams, server, detLists, finalNextVersion, finalReactVersion, probeHint,
          fetched, dpc, scanVars, fetchCall>>

NextDetect == DetectStep

SpecDetect == InitDetect /\ [][NextDetect]_vars

(***************************************************************************)
(* Properties of the detector, checked under SpecDetect.                   *)
(***************************************************************************)

\* What the server makes of a request for url.
BehaviourOf(url) == IF url \in DOMAIN site THEN site[url] ELSE elsewhere

\* The version the direct window.next pattern yields on each file, <<>> when
\* it does not match; and on what url serves.
DirectVersionTable ==
    [c \in FileTexts |->
        LET m == FindSubmatch(windowNextDirectVersionRegex, c)
        IN  IF m.ok THEN GroupText(c, m) ELSE <<>>]

DirectVersionAt(url) ==
    IF BehaviourOf(url) \in FileIds THEN DirectVersionTable[FileText(BehaviourOf(url))]
    ELSE <<>>

\* url serves a file holding a quoted version literal other than v.
HasOtherLiteral(url, v) ==
    /\ BehaviourOf(url) \in FileIds
    /\ \E j \in DOMAIN CandidatesOf(FileText(BehaviourOf(url))) :
          CandidatesOf(FileText(BehaviourOf(url)))[j].candidateVersion # v

\* A priority URL with a direct match beside a non-priority URL with a
\* different literal.
PrecedenceCase ==
    \E p, o \in jsAssetURLs :
        /\ IsPriorityURL(p) /\ ~IsPriorityURL(o)
        /\ DirectVersionAt(p) # <<>>
        /\ HasOtherLiteral(o, DirectVersionAt(p))

\* C2: priority precedence. When a priority URL of the set serves a direct
\* window.next match and a non-priority URL of the set holds a different
\* version literal, Detect returns the direct match of a priority URL as the
\* Next.js version, however many URLs the set has and however they sort.
C2_PriorityPrecedence ==
    (dpc = "returned" /\ ~fetcherNil /\ PrecedenceCase)
        => \E q \in jsAssetURLs :
              /\ IsPriorityURL(q)
              /\ DirectVersionAt(q) # <<>>
              /\ finalNextVersion = DirectVersionAt(q)

\* The candidates of the files the URLs of the set serve.
ServedCandidates ==
    UNION {{CandidatesOf(FileText(BehaviourOf(u)))[j] :
                j \in DOMAIN CandidatesOf(FileText(BehaviourOf(u)))} :
           u \in {w \in jsAssetURLs : BehaviourOf(w) \in FileIds}}

\* v is the value of a literal near "reconcilerVersion", and of no literal
\* away from it.
ReconcilerOnly(v) ==
    /\ \E c \in ServedCandidates : c.candidateVersion = v /\ c.isReconciler
    /\ \A c \in ServedCandidates : c.candidateVersion = v => c.isReconciler

\* C3: context exclusion. A quoted version literal whose 30-character window
\* holds "reconcilerVersion" is never returned as the React version, also
\* when the window holds "react", "React" or "react-dom".
C3_ContextExclusion ==
    dpc = "returned" => ~ReconcilerOnly(finalReactVersion)

\* A let/var/const declaration that assigns a version-like literal.
VersionDeclaration ==
    <<Alt(<<<<"l","e","t">>, <<"v","a","r">>, <<"c","o","n","s","t">>>>), Plus(Space),
      Plus(IdentChars), Star(Space), Lit(<<"=">>), Star(Space), One(Quotes),
      GroupOpen, Plus(Digits), Lit(<<".">>), Plus(Digits), Lit(<<".">>), Plus(Digits),
      NotStar(Quotes), GroupClose, One(Quotes)>>

\* For each file that sets window.next's version to an identifier: the
\* literal of its first declaration, else its first loose literal, else <<>>.
IndirectVersionTable ==
    [c \in FileTexts |->
        LET direct == FindSubmatch(windowNextDirectVersionRegex, c)
            var == FindSubmatch(windowNextVarVersionRegex, c)
            decl == FindSubmatch(VersionDeclaration, c)
            loose == FindSubmatch(simpleVersionRegex, c)
        IN  IF direct.ok \/ ~var.ok THEN <<>>
            ELSE IF decl.ok THEN GroupText(c, decl)
            ELSE IF loose.ok THEN GroupText(c, loose)
            ELSE <<>>]

\* The first priority URL serves a file that sets the version to an
\* identifier and holds a declaration or a loose literal.
IndirectCase ==
    /\ priorityURLs # <<>>
    /\ BehaviourOf(priorityURLs[1]) \in FileIds
    /\ IndirectVersionTable[FileText(BehaviourOf(priorityURLs[1]))] # <<>>

\* C4: indirect resolution chain. When the file sets window.next's version to
\* an identifier, Strategy 1a returns the literal of the file's first
\* let/var/const declaration of a version-like literal, and the file's first
\* loose literal only when the file holds no such declaration.
C4_IndirectChain ==
    (dpc = "1b" /\ IndirectCase)
        => finalNextVersion = IndirectVersionTable[FileText(BehaviourOf(priorityURLs[1]))]

\* The probe has run (it is skipped when a parameter is missing).
ProbeRan ==
    /\ dpc \in {"cleanup", "returned"}
    /\ versionHint # <<>>
    /\ versionHint # UnknownMissingData

ProbedBehaviour == BehaviourOf(AppManifestURL(buildID, assetBaseURL))

C7_ForbiddenProbe ==
    (ProbeRan /\ ProbedBehaviour = "s403")
        => (versionHint = HintPagesRouter /\ foundHint)

Init == InitScan

Next ==
    \/ ScanStep
    \/ DetectStep

Spec == Init /\ [][Next]_vars

(***************************************************************************)
(* Properties of the scanner, checked under Spec.                          *)
(***************************************************************************)

\* The page the site serves at the target URL, and whether the scan got it.
PageOf == documents[TargetURL].doc

PageFetched == documents[TargetURL].how = "ok" /\ TargetURL \notin readFails

\* The page holds a __NEXT_DATA__ payload with a build id and props.
PayloadValid ==
    /\ PageOf.nextData.kind = "json"
    /\ PageOf.nextData.buildId # <<>>
    /\ PageOf.nextData.hasProps

\* The build manifest was fetched, read, run and resolved.
ManifestSucceeded ==
    /\ result.ManifestFound
    /\ result.ManifestExecOK
    /\ IsNilError(manifestProcessingError)

FullSuccess == PageFetched /\ PayloadValid /\ ManifestSucceeded

RoundTripBase == <<"h","t","t","p","s",":","/","/","x",".","t","e","s","t","/","_","n","e","x","t","/">>
RoundTripPrefix == <<"h","t","t","p","s",":","/","/","x",".","t","e","s","t","/","_","n","e","x","t","/","s","t","a","t","i","c","/">>

RoundTripCase ==
    /\ spc = "returned"
    /\ result.ManifestExecOK
    /\ manifestReader.body.data = RoundTripManifest
    /\ result.AssetBaseURL = RoundTripBase

\* C5: manifest round trip. For the manifest {"/a": ["/static/chunks/a.js"],
\* "/b": "/static/chunks/b.css"} and the asset base https://x.test/_next/,
\* the resolver yields exactly the routes /a and /b, each with one asset URL,
\* and each URL is under https://x.test/_next/static/.
C5_ManifestRoundTrip ==
    RoundTripCase =>
        /\ DOMAIN result.Routes = {<<"/","a">>, <<"/","b">>}
        /\ \A k \in DOMAIN result.Routes :
              /\ Len(result.Routes[k]) = 1
              /\ HasPrefix(result.Routes[k][1], RoundTripPrefix)

\* A script src that names a framework script: it holds /_next/static/ and
\* ends in .js.
IsFrameworkScript(src) == Contains(src, TokNextStatic) /\ HasSuffix(src, ExtJS)

\* The page was fetched, holds no __NEXT_DATA__ tag and holds a framework
\* script tag.
NoPayloadWithScripts ==
    /\ PageFetched
    /\ PageOf.nextData.kind = "absent"
    /\ \E src \in PageOf.scripts : IsFrameworkScript(src)

\* No script of the page serves a file that holds a version literal.
NoVersionAnywhere ==
    \A u \in initialScriptURLs :
        BehaviourOf(u) \in FileIds => CandidatesOf(FileText(BehaviourOf(u))) = <<>>

\* C8: when the page has no __NEXT_DATA__ tag but a framework script tag, and
\* no version pattern matches anywhere, the scan returns with a nil
\* ExecutionError and both versions "Unknown".
C8_NoPayloadNoVersion ==
    (spc = "returned" /\ NoPayloadWithScripts /\ NoVersionAnywhere)
        => /\ IsNilError(result.ExecutionError)
           /\ result.DetectedNextVersion = Unknown
           /\ result.DetectedReactVersion = Unknown

\* C9: when the page has no __NEXT_DATA__ tag but a framework script tag, the
\* IsNextJS the scan returns is true, whatever version detection returns.
C9_ScriptsSetIsNextJS ==
    (spc = "returned" /\ NoPayloadWithScripts) => result.IsNextJS

\* A confident version: not empty, not an "Unknown" marker, not a probe hint.
ConfidentValue(v) ==
    /\ v # <<>>
    /\ ~HasPrefix(v, Unknown)
    /\ v \notin {HintAppRouter, HintPagesRouter}

\* C10: retroactive detection. When IsNextJS is still false after the payload
\* and the script tags were looked at, the IsNextJS the scan returns is true
\* exactly when the detected Next.js version is a confident value; a probe
\* hint or an "Unknown" value never makes it true.
C10_Retroactive ==
    [][(spc = "retroactive" /\ ~result.IsNextJS)
          => (result'.IsNextJS <=> ConfidentValue(result.DetectedNextVersion))]_vars

\* A scan returned IsNextJS true for a page without payload, on the strength
\* of the version it detected.
C10_Witness ==
    /\ spc = "returned"
    /\ PageFetched
    /\ PageOf.nextData.kind = "absent"
    /\ result.IsNextJS
    /\ ConfidentValue(result.DetectedNextVersion)
\* err is inner, or wraps it.
Carries(err, inner) ==
    /\ ~IsNilError(inner)
    /\ Len(err.chain) >= Len(inner.chain)
    /\ SubSeq(err.chain, Len(err.chain) - Len(inner.chain) + 1, Len(err.chain)) = inner.chain

\* The scan went past the page: it has looked for the payload, the scripts
\* and the manifest, and has returned.
ScanCompleted == spc = "returned" /\ PageFetched

\* C11: terminal error priority. The result carries at most one error. When
\* manifest processing failed, ExecutionError is the manifest-processing
\* error, also when the payload had an error of its own; a payload error is
\* surfaced only when there is no manifest-processing error, and is not
\* surfaced when the page has no payload and initial scripts were found.
C11_TerminalErrorPriority ==
    ScanCompleted =>
        /\ ~IsNilError(manifestProcessingError)
              => /\ Carries(result.ExecutionError, manifestProcessingError)
                 /\ ~Carries(result.ExecutionError, nextDataErr)
        /\ Carries(result.ExecutionError, nextDataErr)
              => /\ IsNilError(manifestProcessingError)
                 /\ ~(PageOf.nextData.kind = "absent" /\ initialScriptURLs # {})

\* C13: on return from every scan that parsed the page, AllAssets holds every
\* script URL found in the page: when the manifest lookup was skipped, when
\* the manifest fetch or evaluation failed, and when the manifest was
\* processed (where AllAssets holds the manifest's assets as well).
C13_AllAssetsHoldScripts ==
    ScanCompleted =>
        /\ initialScriptURLs \subseteq result.AllAssets
        /\ (result.ManifestFound /\ result.ManifestExecOK)
              => manifestAssets \subseteq result.AllAssets

\* The build identifier of the page's payload, empty when the page has no
\* payload that parses.
PayloadBuildID ==
    IF PageOf.nextData.kind = "json" THEN PageOf.nextData.buildId ELSE <<>>

\* Fetch was called with the URL of a build manifest.
ManifestFetched ==
    \E i \in DOMAIN fetched : HasSuffix(fetched[i], Slash \o BuildManifestFile)

\* C15: in every scan that read the page, a build manifest is fetched if and
\* only if the build identifier is not empty; when it is empty, ManifestFound
\* and ManifestExecOK stay false, Routes stays empty and no
\* manifest-processing error is surfaced.
C15_ManifestIffBuildID ==
    ScanCompleted =>
        /\ result.BuildID = PayloadBuildID
        /\ ManifestFetched <=> PayloadBuildID # <<>>
        /\ PayloadBuildID = <<>> =>
              /\ ~result.ManifestFound
              /\ ~result.ManifestExecOK
              /\ DOMAIN result.Routes = {}
              /\ IsNilError(manifestProcessingError)
              /\ ~HasPrefix(result.ExecutionError.text, MsgManifestFailed)

\* A scan of a page with scripts and without build identifier has returned,
\* with the manifest served where it would be looked for.
C15_Witness ==
    /\ ScanCompleted
    /\ PayloadBuildID = <<>>
    /\ initialScriptURLs # {}
    /\ DefaultManifestLocation \in DOMAIN documents
    /\ ~ManifestFetched

\* The manifest was fetched, read and evaluated to an object, and ScanTarget
\* is past its extraction.
ManifestObjectRead ==
    /\ spc \in {"detect", "detecting", "retroactive", "returned"}
    /\ ~manifestReader.isNil
    /\ manifestReader.url \notin readFails
    /\ manifestReader.body.exec = "object"

\* What the claim asks of a key and its value for the key to be a route.
IsRouteEntry(routePath, value) ==
    /\ ~HasPrefix(routePath, SentinelPrefix)
    /\ routePath # SortedPagesKey
    /\ \/ value.t = "list"
       \/ /\ value.t = "str"
          /\ HasSuffix(value.s, ExtJS) \/ HasSuffix(value.s, ExtCSS)

\* C16: a top-level key of the manifest is in Routes if and only if it does
\* not start with "__", is not "sortedPages", and its value is a list or a
\* string ending in .js or .css, the string being taken as a one-element
\* list; a value of another shape makes its key be skipped, the extraction
\* does not fail, and the other keys are processed.
C16_RouteKeys ==
    ManifestObjectRead =>
        /\ result.ManifestExecOK
        /\ IsNilError(manifestProcessingError)
        /\ DOMAIN result.Routes \subseteq DOMAIN manifestReader.body.data
        /\ \A k \in DOMAIN manifestReader.body.data :
              /\ k \in DOMAIN result.Routes
                    <=> IsRouteEntry(k, manifestReader.body.data[k])
              /\ (k \in DOMAIN result.Routes
                     /\ manifestReader.body.data[k].t = "str")
                    => Len(result.Routes[k]) = 1

\* The manifest with keys of every kind was extracted.
C16_Witness ==
    /\ ManifestObjectRead
    /\ manifestReader.body.data = MixedManifest
    /\ DOMAIN result.Routes = {<<"/","e">>, <<"/","f">>}

\* The path of the override followed by the prefix path, with exactly one
\* "/" between the two.
JoinedWithOneSlash(overridePath, prefixPath) ==
    (IF HasSuffix(overridePath, Slash)
     THEN SubSeq(overridePath, 1, Len(overridePath) - 1)
     ELSE overridePath)
        \o Slash \o TrimPrefix(prefixPath, Slash)

\* What the precedence rule asks of the asset base, for the override and the
\* prefix as url.Parse gives them.
OverrideRule(assetBase, override, assetPrefix, prefixURL) ==
    /\ assetBase.scheme = override.scheme
    /\ assetBase.host = override.host
    /\ assetBase.path =
          IF assetPrefix = <<>> THEN override.path
          ELSE IF ~prefixURL.err /\ IsAbs(prefixURL)
          THEN JoinedWithOneSlash(override.path, prefixURL.path)
          ELSE JoinedWithOneSlash(override.path, assetPrefix)

\* A scan with an override base URL that parses has returned.
OverrideUsed ==
    /\ ScanCompleted
    /\ customBaseURL # <<>>
    /\ ~ParseURL(customBaseURL).err

\* C17: with an override base URL that parses, AssetBaseURL has the scheme
\* and the host of the override, and its path is the path of the override
\* followed by the asset prefix: the path component alone of an absolute
\* prefix, a relative prefix joined with exactly one "/"; without prefix
\* AssetBaseURL equals the override.
C17_OverridePrecedence ==
    OverrideUsed =>
        /\ OverrideRule(ParseURL(result.AssetBaseURL), ParseURL(customBaseURL),
                        result.AssetPrefix, ParseURL(result.AssetPrefix))
        /\ result.AssetPrefix = <<>> => result.AssetBaseURL = customBaseURL

\* The path with a "/" after its last segment.
AsDirectory(dirPath) == IF HasSuffix(dirPath, Slash) THEN dirPath ELSE dirPath \o Slash

\* The path has a segment _next.
HasNextSegment(basePath) ==
    \E i \in DOMAIN Split(basePath, "/") : Split(basePath, "/")[i] = NextDir

\* The directory the claim puts the manifest of build id in: every segment of
\* the asset base, then _next unless the asset base has that segment, then
\* static and the build id.
StaticBuildDir(assetBase, id) ==
    URLString([assetBase EXCEPT
                 !.path = AsDirectory(assetBase.path)
                             \o (IF HasNextSegment(assetBase.path) THEN <<>>
                                 ELSE NextDir \o Slash)
                             \o StaticDir \o Slash \o id \o Slash])

\* The scan asked for a build manifest: the request after that of the page.
PrimaryManifestFetched == ScanCompleted /\ result.BuildID # <<>> /\ Len(fetched) >= 2

\* C22: the primary manifest URL keeps every path segment of the asset base
\* and is that path followed by static/<buildId>/_buildManifest.js when the
\* path of the asset base has the segment _next, and by
\* _next/static/<buildId>/_buildManifest.js otherwise, whether or not the
\* path of the asset base ends with a slash.
C22_ManifestURLDerivation ==
    PrimaryManifestFetched =>
        fetched[2] = StaticBuildDir(ParseURL(result.AssetBaseURL), result.BuildID)
                        \o BuildManifestFile

\* The URL without the file name it ends with.
DirectoryOf(fileURL, fileName) == SubSeq(fileURL, 1, Len(fileURL) - Len(fileName))

\* The i-th request of the scan is that of the presence probe.
IsProbeRequest(i) == HasSuffix(fetched[i], Slash \o AppManifestFile)

\* C23: the URL of the presence probe lies in the directory of the primary
\* build-manifest URL, the two differing in the file name only, also when the
\* path of the asset base has the segment _next.
C23_ProbeBesideManifest ==
    PrimaryManifestFetched =>
        \A i \in DOMAIN fetched :
            IsProbeRequest(i) =>
                DirectoryOf(fetched[i], AppManifestFile)
                    = DirectoryOf(fetched[2], BuildManifestFile)

\* The requests of the scan that ask for a build manifest.
ManifestRequests ==
    {i \in DOMAIN fetched : HasSuffix(fetched[i], Slash \o BuildManifestFile)}

\* The scan asked for the manifest a second time: the request after the
\* primary one.
FallbackFetched == PrimaryManifestFetched /\ Cardinality(ManifestRequests) = 2

\* The asset prefix names a host, or its first path segment looks like a
\* domain.
PrefixNamesHost(assetPrefix) ==
    \/ ~ParseURL(assetPrefix).err /\ ParseURL(assetPrefix).host # <<>>
    \/ Contains(Split(TrimChar(assetPrefix, "/"), "/")[1], Dot)

DetectorInput ==
    initialScriptURLs \cup
        (IF result.ManifestFound /\ result.ManifestExecOK
         THEN {u \in result.AllAssets : HasSuffix(u, ExtJS)} ELSE {})

\* The step calls Detect.
DetectCalled == dpc' = "entry" /\ dpc # "entry"

\* C25: in a scan that read the page, the detector is called exactly once,
\* after the manifest processing; its URL set is the scripts found in the
\* HTML united with the manifest assets ending in .js, the latter only when
\* the manifest was found and evaluated; no stylesheet URL is passed.
C25_DetectorCalledOnce ==
    /\ [](ScanCompleted =>
            /\ dpc = "returned"
            /\ jsAssetURLs = DetectorInput
            /\ \A u \in jsAssetURLs : ~HasSuffix(u, ExtCSS))
    /\ [][/\ DetectCalled =>
               /\ dpc = "idle"
               /\ spc = "detect"
               /\ jsAssetURLs' = DetectorInput
          /\ dpc # "idle" => dpc' \notin {"idle", "entry"}
          /\ spc \in {"entry", "nextData", "assetBase", "manifest", "noManifest",
                      "readManifest"} => dpc' = "idle"]_vars

\* A scan has returned after a call of Detect with scripts of the page and of
\* a manifest that lists a stylesheet too.
C25_Witness ==
    /\ ScanCompleted
    /\ result.ManifestExecOK
    /\ initialScriptURLs # {}
    /\ \E u \in result.AllAssets : HasSuffix(u, ExtCSS)
    /\ \E u \in jsAssetURLs : u \in result.AllAssets /\ u \notin initialScriptURLs

\* The asset paths of a manifest value that the extraction keeps: the strings
\* of the list, or the string itself, that end in .js or .css.
KeptPaths(value) ==
    {item.s : item \in {it \in (IF value.t = "list"
                                 THEN {value.items[i] : i \in 1..Len(value.items)}
                                 ELSE {value}) :
                           it.t = "str"
                              /\ (HasSuffix(it.s, ExtJS) \/ HasSuffix(it.s, ExtCSS))}}

\* The URL is one built from a kept path of the value, and has the scheme and
\* the host of the asset base.
IsRouteAssetOf(assetURL, value, assetBase) ==
    /\ \E assetPath \in KeptPaths(value) : assetURL = FullAssetURL(assetBase, assetPath)
    /\ HasSuffix(assetURL, ExtJS) \/ HasSuffix(assetURL, ExtCSS)
    /\ ~ParseURL(assetURL).err
    /\ ParseURL(assetURL).scheme = assetBase.scheme
    /\ ParseURL(assetURL).host = assetBase.host

\* C29: after a manifest evaluation that succeeded, the asset list of every
\* route in Routes is in ascending order and holds only URLs built from paths
\* of the manifest that end in .js or .css, each with the scheme and the host
\* of the asset base (which parses); and the asset set extractRoutesAndAssets
\* returned is the union of the lists of all routes.
C29_RouteLists ==
    ManifestObjectRead =>
        /\ result.ManifestExecOK
        /\ ~ParseURL(result.AssetBaseURL).err
        /\ \A k \in DOMAIN result.Routes :
              /\ \A i \in 1..Len(result.Routes[k]) :
                    /\ \A j \in (i + 1)..Len(result.Routes[k]) :
                          ~StrLess(result.Routes[k][j], result.Routes[k][i])
                    /\ IsRouteAssetOf(result.Routes[k][i], manifestReader.body.data[k],
                                      ParseURL(result.AssetBaseURL))
        /\ manifestAssets
              = UNION {{result.Routes[k][i] : i \in 1..Len(result.Routes[k])} :
                          k \in DOMAIN result.Routes}

\* The manifest whose route /f lists z.js before a.css was extracted, with an
\* asset base on another host than the target.
C29_Witness ==
    /\ ManifestObjectRead
    /\ manifestReader.body.data = MixedManifest
    /\ Len(result.Routes[<<"/","f">>]) = 2
    /\ HasSuffix(result.Routes[<<"/","f">>][1], ExtCSS)
    /\ ParseURL(result.AssetBaseURL).host # ParseURL(TargetURL).host
    /\ Cardinality(manifestAssets) = 3

\* The scan had a build id and did not get an object out of a manifest.
ManifestFailed == ScanCompleted /\ result.BuildID # <<>> /\ ~result.ManifestExecOK

\* C30: no manifest failure is silent. On return from a scan that read the
\* page, a build id that is not empty and ManifestExecOK = false (the fetches
\* failed, the body could not be read, or the evaluation failed or gave no
\* object) come with an ExecutionError that is not nil and is the
\* manifest-processing error, which is also the error returned; and
\* ManifestExecOK = true comes with ManifestFound = true and a build id that is
\* not empty.
C30_NoSilentManifestFailure ==
    /\ ManifestFailed =>
          /\ ~IsNilError(manifestProcessingError)
          /\ ~IsNilError(result.ExecutionError)
          /\ Carries(result.ExecutionError, manifestProcessingError)
          /\ result.ExecutionError.text = MsgManifestFailed \o manifestProcessingError.text
          /\ retErr = result.ExecutionError
    /\ (ScanCompleted /\ result.ManifestExecOK) =>
          /\ result.ManifestFound
          /\ result.BuildID # <<>>

\* A scan returned with a manifest that was fetched but gave no object, and
\* with a version read from a script of the page.
C30_Witness ==
    /\ ManifestFailed
    /\ result.ManifestFound
    /\ IsConfidentVersion(result.DetectedNextVersion)
    /\ result.IsNextJS

(***************************************************************************)
(* Further properties of the detector, checked under SpecDetect.           *)
(***************************************************************************)

\* No file the URLs of the set serve holds a window.next version or a literal
\* that counts for Next.js; none holds a literal that counts for React.
NoNextPattern ==
    /\ \A u \in jsAssetURLs :
          BehaviourOf(u) \in FileIds => ~WindowNextOf(FileText(BehaviourOf(u))).found
    /\ \A c \in ServedCandidates : c.isReact \/ c.isReconciler

NoReactPattern == \A c \in ServedCandidates : ~c.isReact

\* C12: Detect never returns an empty version. The Next.js version is exactly
\* "Unknown" when no pattern matched and the probe reported no finding (the
\* marker of a failed probe is not returned), the React version is exactly
\* "Unknown" when no context scan found a React literal, and both are
\* "Unknown (Missing fetcher)" when the fetcher is nil.
C12_NeverEmpty ==
    dpc = "returned" =>
        /\ finalNextVersion # <<>>
        /\ finalReactVersion # <<>>
        /\ fetcherNil => /\ finalNextVersion = UnknownMissingFetcher
                         /\ finalReactVersion = UnknownMissingFetcher
        /\ ~fetcherNil =>
              /\ (NoNextPattern /\ ~foundHint) => finalNextVersion = Unknown
              /\ finalNextVersion \notin {UnknownErrorProbing, UnknownMissingData}
              /\ NoReactPattern => finalReactVersion = Unknown

\* Detect returned "Unknown" twice after a probe that failed on a 500.
C12_Witness ==
    /\ dpc = "returned"
    /\ ~fetcherNil
    /\ ProbedBehaviour = "s500"
    /\ versionHint = UnknownErrorProbing
    /\ finalNextVersion = Unknown
    /\ finalReactVersion = Unknown

\* C20: during Detect, once the Next.js version or the React version is set
\* to a non-empty value, no later step (the window.next scan of the other
\* URLs, the context scan of all URLs, the probe, the final defaulting)
\* changes it.
C20_NoOverwrite ==
    [][/\ finalNextVersion # <<>> => finalNextVersion' = finalNextVersion
       /\ finalReactVersion # <<>> => finalReactVersion' = finalReactVersion]_vars

\* Detect has returned the versions the priority scans set, after every later
\* step had its turn: there were other URLs, and a build id for the probe.
C20_Witness ==
    /\ dpc = "returned"
    /\ priorityURLs # <<>>
    /\ otherURLs # <<>>
    /\ buildID # <<>>
    /\ finalNextVersion \notin {Unknown, HintAppRouter, HintPagesRouter}
    /\ finalReactVersion # Unknown
    /\ \E i \in DOMAIN priorityURLs : finalNextVersion = DirectVersionAt(priorityURLs[i])

\* The URLs of a list.
URLsOf(list) == {list[i] : i \in DOMAIN list}

\* The list holds each URL of the set once, in ascending order.
IsSortedListOf(list, urls) ==
    /\ URLsOf(list) = urls
    /\ Len(list) = Cardinality(urls)
    /\ list = SortStringSeq(list)

\* C21: when a strategy runs, the priority list holds exactly the input URLs
\* whose last path segment contains "framework" or "main", the other list
\* holds exactly the remaining input URLs, the two lists are disjoint, each
\* is sorted, and building the sorted concatenation of both has altered
\* neither; an empty input gives two empty lists.
C21_Classification ==
    (dpc \in {"1a", "1b", "1c", "2", "3"}) =>
        /\ IsSortedListOf(priorityURLs, {u \in jsAssetURLs : IsPriorityURL(u)})
        /\ IsSortedListOf(otherURLs, {u \in jsAssetURLs : ~IsPriorityURL(u)})
        /\ URLsOf(priorityURLs) \cap URLsOf(otherURLs) = {}
        /\ jsAssetURLs = {} => priorityURLs = <<>> /\ otherURLs = <<>>

\* The file url serves reaches the scans of Detect.
ServesFile(url) == BehaviourOf(url) \in FileIds /\ url \notin readFails

\* The quoted version literals of the file url serves whose window holds
\* neither a React token nor reconcilerVersion.
FrameworkLiterals(url) ==
    IF ServesFile(url)
    THEN {CandidatesOf(FileText(BehaviourOf(url)))[j].candidateVersion :
            j \in {k \in DOMAIN CandidatesOf(FileText(BehaviourOf(url))) :
                     /\ ~CandidatesOf(FileText(BehaviourOf(url)))[k].isReact
                     /\ ~CandidatesOf(FileText(BehaviourOf(url)))[k].isReconciler}}
    ELSE {}

\* No file of the set holds a window.next pattern.
NoWindowNext ==
    \A u \in jsAssetURLs :
        ServesFile(u) => ~WindowNextOf(FileText(BehaviourOf(u))).found

\* A priority URL and a non-priority URL hold different framework literals.
ContextPrecedenceCase ==
    /\ NoWindowNext
    /\ \E p, o \in jsAssetURLs :
          /\ IsPriorityURL(p) /\ ~IsPriorityURL(o)
          /\ FrameworkLiterals(p) # {}
          /\ FrameworkLiterals(o) # {}
          /\ FrameworkLiterals(p) \cap FrameworkLiterals(o) = {}

\* C26: when no window.next pattern matches in any URL, a priority URL holds
\* a quoted version literal with no React token in its window and a
\* non-priority URL holds a different such literal, Detect returns the
\* literal of the priority URL as the Next.js version, also when the
\* non-priority URL sorts before the priority URL.
C26_ContextPriority ==
    (dpc = "returned" /\ ~fetcherNil /\ ContextPrecedenceCase)
        => \E p \in jsAssetURLs :
              IsPriorityURL(p) /\ finalNextVersion \in FrameworkLiterals(p)

\* Both versions are known to Detect.
BothKnown == finalNextVersion # <<>> /\ finalReactVersion # <<>>

\* How many URLs the step fetched.
FetchedInStep == Len(fetched') - Len(fetched)

\* The context scan of the first k URLs of the list, started with the
\* versions given, knows both versions.
BothKnownAfter(urls, k, currentNextVersion, currentReactVersion) ==
    \E r \in {detectWithSimpleContextPattern(SubSeq(urls, 1, k), currentNextVersion,
                                              currentReactVersion)} :
        r.next # <<>> /\ r.react # <<>>

\* The context scan of the step went on to another URL of the list with both
\* versions known.
FetchedPastBothKnown(urls, currentReactVersion) ==
    \E k \in 0..(FetchedInStep - 1) :
        BothKnownAfter(urls, k, finalNextVersion, currentReactVersion)

\* C27: once Detect knows both versions no further fetch is issued: the
\* context scan does not fetch the URLs left in its list, and the window.next
\* scan of the other URLs, the context scan of all URLs and the probe are not
\* run; the probe is run only while the Next.js version is unknown, and never
\* sets the React version.
C27_EarlyStop ==
    [][/\ BothKnown => fetched' = fetched
       /\ dpc = "1b" => ~FetchedPastBothKnown(priorityURLs, <<>>)
       /\ dpc = "2" => ~FetchedPastBothKnown(allURLs, finalReactVersion)
       /\ dpc = "3" =>
             /\ finalReactVersion' = finalReactVersion
             /\ fetched' # fetched => finalNextVersion = <<>>]_vars

\* Detect has returned both versions from the priority scans, with a build
\* id and other URLs, without asking for every URL of its priority list.
C27_Witness ==
    /\ dpc = "returned"
    /\ finalNextVersion \notin {Unknown, HintAppRouter, HintPagesRouter}
    /\ finalReactVersion # Unknown
    /\ buildID # <<>>
    /\ otherURLs # <<>>
    /\ \E i \in DOMAIN priorityURLs :
          \A j \in DOMAIN fetched : fetched[j] # priorityURLs[i]

\* The text from ContextWindow characters before the match m of contentBytes
\* to ContextWindow characters after it.
OwnContext(contentBytes, m) ==
    SubSeq(contentBytes,
           IF m.start - ContextWindow < 1 THEN 1 ELSE m.start - ContextWindow,
           IF m.end - 1 + ContextWindow > Len(contentBytes) THEN Len(contentBytes)
           ELSE m.end - 1 + ContextWindow)

\* The candidates of the file, each classified by the text around it.
OwnCandidatesAmong(contentBytes, matches) ==
    [j \in 1..Len(matches) |->
        Candidate(GroupText(contentBytes, matches[j]), OwnContext(contentBytes, matches[j]))]

OwnCandidatesTable ==
    [c \in FileTexts |->
        OwnCandidatesAmong(c, FindAllSubmatch(simpleVersionRegex, c))] @@ <<>>

\* The context scan fetched and read the file of url.
ContextScanned(url) ==
    /\ dpc = "returned"
    /\ ServesFile(url)
    /\ \E i \in DOMAIN fetched : fetched[i] = url

\* C28: the window the context scan examines for a match is the text
\* ContextWindow characters each side of the match itself, also for a quoted
\* version that occurs earlier in the file: the later occurrence is
\* classified by the text around it.
C28_WindowAtMatch ==
    \A u \in jsAssetURLs :
        ContextScanned(u) =>
            CandidatesOf(FileText(BehaviourOf(u)))
                = OwnCandidatesTable[FileText(BehaviourOf(u))]

(***************************************************************************)
(* Scans, and calls of Detect on its own, together.                        *)
(***************************************************************************)
InitAll == InitScan \/ InitDetect

SpecAll == InitAll /\ [][Next]_vars

\* The step leaves Detect with the lists given.
ListsBecome(lists) ==
    /\ priorityURLs' = lists.priorityURLs
    /\ otherURLs' = lists.otherURLs
    /\ allURLs' = lists.allURLs

\* The step leaves the result with the routes and assets given.
RoutesBecome(extracted) ==
    /\ result'.Routes = extracted.routes
    /\ result'.AllAssets = extracted.allAssets

\* C14: determinism. For a fixed server and a fixed URL set, whatever order
\* the range over the URL set enumerates it in, Detect works on the same
\* priority, other and full lists as in ascending order (every later step of
\* Detect is a function of these lists and of the server, so that the versions
\* are the same); and whatever order the range over the manifest enumerates
\* its keys in, Routes, with the order of each route's assets, and AllAssets
\* are the same as in ascending order.
C14_Determinism ==
    [][/\ (dpc = "entry" /\ ~fetcherNil)
            => ListsBecome(PrepareURLLists(SortStrings(jsAssetURLs)))
       /\ (spc = "readManifest" /\ result'.ManifestExecOK)
            => RoutesBecome(extractRoutesAndAssets(
                                manifestReader.body.data, result.AssetBaseURL,
                                SortStrings(DOMAIN manifestReader.body.data)))]_vars

\* Detect has returned a version for a set of three URLs or more, of both
\* kinds, which the range may enumerate in six orders or more.
C14_Witness ==
    /\ dpc = "returned"
    /\ Cardinality(jsAssetURLs) >= 3
    /\ priorityURLs # <<>>
    /\ otherURLs # <<>>
    /\ finalNextVersion # Unknown

(***************************************************************************)
(* HTTPFetcher.Fetch, statement by statement, called on its own with a     *)
(* server that may answer each profile in its own way.                     *)
(***************************************************************************)
FetchTargets ==
    {<<"h","t","t","p","s",":","/","/","x",".","t","e","s","t","/">>,
     <<"h","t","t","p","s",":","/","/","x",".","t","e","s","t","/","a",".","j","s">>}

RedirectedURL == <<"h","t","t","p","s",":","/","/","w","w","w",".","x",".","t","e","s","t","/">>

\* client.Do returned an error, and the zero Response with it.
DoError ==
    [failed |-> TRUE, errText |-> <<"E","O","F">>, status |-> 0, body |-> <<>>,
     finalUrl |-> <<>>]

\* What one call of client.Do(targetURL, ...) may return.
DoResults(targetURL) ==
    {DoError,
     Answer(0, MsgTlsProtocol, <<>>),
     Answer(0, <<"r","e","m","o","t","e"," ","e","r","r","o","r",":"," ">>
                  \o MsgHandshakeFailure, <<>>),
     Answer(0, <<"t","i","m","e","o","u","t">>, <<>>),
     Answer(0, <<>>, <<>>),
     Answer(StatusForbidden, <<>>, targetURL),
     Answer(StatusOK, <<"o","k">>, targetURL),
     Answer(StatusOK, <<"o","k">>, RedirectedURL),
     Answer(StatusOK, <<"o","k">>, <<>>),
     Answer(404, <<>>, targetURL),
     Answer(500, <<>>, <<>>)}

\* Lines 59-89: one turn of the loop, the request with profile profileIndex.
FetchRequest ==
    /\ fpc = "loop"
    /\ requests' = Append(requests, profileIndex)
    /\ lastResp' = profileAnswers[profileIndex]
    /\ IF FetchAttempt(profileAnswers[profileIndex]) = "stop"
       THEN /\ success' = TRUE
            /\ fpc' = "after"
            /\ UNCHANGED profileIndex
       ELSE /\ UNCHANGED success
            /\ IF profileIndex = NumProfiles
               THEN fpc' = "after" /\ UNCHANGED profileIndex
               ELSE fpc' = "loop" /\ profileIndex' = profileIndex + 1
    /\ UNCHANGED <<fetchTarget, profileAnswers, fetchReturn, server, fetched, detParams,
                   detLocals, scanVars>>

\* Lines 91-105: no profile succeeded.
FetchGiveUp ==
    /\ fpc = "after"
    /\ ~success
    /\ fetchReturn' = FetchAllFailed(lastResp, fetchTarget)
    /\ fpc' = "returned"
    /\ UNCHANGED <<fetchTarget, profileAnswers, requests, lastResp, success,
                   profileIndex, server, fetched, detParams, detLocals, scanVars>>

\* Lines 107-127: the answer that ended the loop decides.
FetchDecide ==
    /\ fpc = "after"
    /\ success
    /\ fetchReturn' = FetchSucceeded(lastResp, fetchTarget)
    /\ fpc' = "returned"
    /\ UNCHANGED <<fetchTarget, profileAnswers, requests, lastResp, success,
                   profileIndex, server, fetched, detParams, detLocals, scanVars>>

FetchStep ==
    \/ FetchRequest
    \/ FetchGiveUp
    \/ FetchDecide

InitFetch ==
    /\ fetchTarget \in FetchTargets
    /\ profileAnswers \in [1..NumProfiles -> DoResults(fetchTarget)]
    /\ requests = <<>>
    /\ lastResp = NoAnswer
    /\ success = FALSE
    /\ profileIndex = 1
    /\ fetchReturn = NoReturn
    /\ fpc = "loop"
    /\ site = <<>>
    /\ elsewhere = "s404"
    /\ documents = <<>>
    /\ readFails = {}
    /\ fetched = <<>>
    /\ ScanIdle
    /\ DetectIdle

SpecFetch == InitFetch /\ [][FetchStep]_vars

\* The statement-by-statement Fetch returns what the operator Fetch gives.
FetchLoopAgrees ==
    fpc = "returned" => fetchReturn = Fetch(profileAnswers, fetchTarget)

\* The answer to the last request made.
LastAnswer == profileAnswers[requests[Len(requests)]]

\* C18: on every return of Fetch exactly one of reader and error is not nil;
\* the reader is not nil exactly when the last response has status 200; the
\* final URL returned is not empty: it is the final URL of the response, or
\* the target URL when the response reports none.
C18_ReaderXorError ==
    fpc = "returned" =>
        /\ fetchReturn.hasReader # fetchReturn.hasErr
        /\ fetchReturn.hasReader
             <=> (~LastAnswer.failed /\ LastAnswer.status = StatusOK)
        /\ fetchReturn.finalURL # <<>>
        /\ fetchReturn.finalURL =
             IF LastAnswer.finalUrl # <<>> THEN LastAnswer.finalUrl ELSE fetchTarget

\* Fetch has returned a reader for the answer to the last profile, an answer
\* that reports no final URL.
C18_Witness ==
    /\ fpc = "returned"
    /\ fetchReturn.hasReader
    /\ Len(requests) = NumProfiles
    /\ LastAnswer.finalUrl = <<>>
    /\ fetchReturn.finalURL = fetchTarget

\* What the claim calls a retryable failure: a transport error, a status 0
\* with the text of a TLS handshake failure, a 403.
IsRetryable(resp) ==
    \/ resp.failed
    \/ /\ resp.status = 0
       /\ Contains(resp.body, MsgTlsProtocol) \/ Contains(resp.body, MsgHandshakeFailure)
    \/ resp.status = StatusForbidden

\* C19: Fetch makes one request per profile, in the order of the list; it
\* goes on to the next profile only after a transport error, a TLS handshake
\* failure with status 0 or a 403; the first answer of another kind ends the
\* rotation and decides the result; at most len(profiles) requests are made,
\* and Fetch returns an error when every profile failed in a retryable way.
C19_ProfileRotation ==
    /\ Len(requests) <= NumProfiles
    /\ \A j \in DOMAIN requests : requests[j] = j
    /\ \A j \in DOMAIN requests : j < Len(requests) => IsRetryable(profileAnswers[j])
    /\ fpc \in {"after", "returned"} =>
          /\ requests # <<>>
          /\ IsRetryable(LastAnswer) => Len(requests) = NumProfiles
    /\ fpc = "returned" =>
          IF IsRetryable(LastAnswer)
          THEN fetchReturn.hasErr /\ ~fetchReturn.hasReader
          ELSE /\ fetchReturn.hasReader <=> LastAnswer.status = StatusOK
               /\ fetchReturn.hasReader => fetchReturn.body = LastAnswer.body
               /\ fetchReturn.hasErr <=> LastAnswer.status # StatusOK

\* Fetch has returned the answer to the second profile, the first having got
\* a 403.
C19_Witness ==
    /\ fpc = "returned"
    /\ Len(requests) = 2
    /\ profileAnswers[1].status = StatusForbidden
    /\ ~IsRetryable(profileAnswers[2])
    /\ fetchReturn.hasReader

=============================================================================
